---------------------------- MODULE Spec2Model ----------------------------
(***************************************************************************)
(* The tiled scheduler of RayMarcher.cpp (class CRenderer): the worker     *)
(* threads started by the constructor, the driver-side calls Update,       *)
(* RenderScene, Cancel, ResizeBuffer and the destructor, and the WM_SIZE   *)
(* handler of WndProc that wraps ResizeBuffer.                             *)
(*                                                                         *)
(* One driver thread (the window thread) makes the calls; dpc is its       *)
(* position inside the call it is executing.  Each worker thread has a     *)
(* position wpc[w] inside the lambda of the constructor.  Sections of code *)
(* that run under mJobMutex are single actions.                            *)
(***************************************************************************)
EXTENDS Integers, Sequences, FiniteSets, Bags, TLC

\* ------------------------------------------------------------- bounds ----
MaxProcessors == 2      \* std::thread::hardware_concurrency() ranges over 1..MaxProcessors
MaxPixels == 4          \* requested sizes are those of at most MaxPixels pixels
MaxCalls == 3           \* the driver starts at most MaxCalls calls
MaxStep == 2
MaxChildren == 2        \* objects in a composite            \* strides of the block-preview build range over 1..MaxStep
MaxSide == 6            \* the tile layout is computed for buffers of up to MaxSide x MaxSide pixels
MaxCores == 4           \* and for hardware_concurrency() in 0..MaxCores
MaxMessages == 4        \* WndProc handles at most MaxMessages messages

\* ---------------------------------------------------- program constants --
skDefaultWidth == 640
skDefaultHeight == 480
skInitialStepSize == 1
skJobCoreMultiplier == 5
DeltaTime == 1          \* the deltaTime WndProc passes to Update, in units of 0.1f

Fill == <<"fill">>      \* CColor4f( 0.5f, 0.6f, 0.7f ), the colour ResizeBuffer writes
NoTime == 0 - 1         \* mScene holds no objects: BuildScene has not run since Reset

VARIABLES
    numProcessors,      \* std::thread::hardware_concurrency()
    stepSize,           \* the build's skInitialStepSize
    mBufferWidth, mBufferHeight, mTime, mBuffer, mScene,
    mWorkAreas, mCurrentWorkArea, mShutdown,
    workers,            \* the local states of the worker threads
    dpc, dW, dH, dRet,  \* driver: position, width/height arguments, where Cancel returns to
    writes,             \* history: SetPixelColor stores per pixel since the last tile-list or buffer replacement
    taker,              \* history: per tile, who advanced the cursor over it
    builds,             \* history: number of BuildScene invocations
    calls,              \* history: number of calls the driver has started
    lastCall,           \* history: the call the driver started last
    lastDone,           \* history: IsDone() when that call started
    calc,               \* the ray tracer's function under evaluation: its arguments, locals and result
    frameScene          \* history: mScene when the work areas were created, if the buffer is still the one they were created for

progVars == <<mBufferWidth, mBufferHeight, mTime, mBuffer, mScene,
              mWorkAreas, mCurrentWorkArea, mShutdown>>
driverVars == <<dpc, dW, dH, dRet>>
histVars == <<writes, taker, builds, calls, lastCall, lastDone, frameScene>>
vars == <<numProcessors, stepSize, progVars, workers, driverVars, histVars, calc>>

\* ------------------------------------------------------------ helpers ----
max_val(a, b) == IF a > b THEN a ELSE b
min_val(a, b) == IF a < b THEN a ELSE b

\* static_cast<uint32_t>( sqrtf( n ) ) for the small n of the model
FloorSqrt(n) == CHOOSE k \in 0..n : k * k <= n /\ (k + 1) * (k + 1) > n

\* the constructor with two of its arguments in each other's place
SWorkAreaSwapped(minx, miny, maxx, maxy) ==
    [mMinX |-> minx, mMinY |-> maxx, mMaxX |-> miny, mMaxY |-> maxy, mJobDone |-> FALSE]

SWorkArea(minx, miny, maxx, maxy) ==
    [mMinX |-> minx, mMinY |-> miny, mMaxX |-> maxx, mMaxY |-> maxy, mJobDone |-> FALSE]

\* the inner loop of RenderScene: for (x; x < mBufferWidth; x += hStepSize) push_back
RECURSIVE RowAreas(_, _, _, _, _, _)
RowAreas(x, y, hStepSize, vStepSize, width, height) ==
    IF x < width
    THEN <<SWorkArea(x, y, min_val(width, x + hStepSize), min_val(height, y + vStepSize))>>
         \o RowAreas(x + hStepSize, y, hStepSize, vStepSize, width, height)
    ELSE <<>>

\* the outer loop of RenderScene: for (y; y < mBufferHeight; y += vStepSize)
RECURSIVE AllAreas(_, _, _, _, _)
AllAreas(y, hStepSize, vStepSize, width, height) ==
    IF y < height
    THEN RowAreas(0, y, hStepSize, vStepSize, width, height)
         \o AllAreas(y + vStepSize, hStepSize, vStepSize, width, height)
    ELSE <<>>

\* a layout whose edge count is the job count, without the square root
WorkAreasForJobCount(width, height, processors) ==
    LET jobCount == processors * skJobCoreMultiplier
        edgeJobCount == max_val(jobCount, 1)
        hStepSize == max_val(1, width \div edgeJobCount)
        vStepSize == max_val(1, height \div edgeJobCount)
    IN  AllAreas(0, hStepSize, vStepSize, width, height)

\* the work areas RenderScene creates for a buffer of width x height
WorkAreasFor(width, height, processors) ==
    LET jobCount == processors * skJobCoreMultiplier
        edgeJobCount == max_val(FloorSqrt(jobCount), 1)
        hStepSize == max_val(1, width \div edgeJobCount)
        vStepSize == max_val(1, height \div edgeJobCount)
    IN  AllAreas(0, hStepSize, vStepSize, width, height)

\* CRenderer::IsDone.  The loop reads the flags one by one; while it runs only
\* workers act, and they only turn flags to true, so the result is the value
\* of this predicate at some moment of the scan.
IsDone == \A i \in 1..Len(mWorkAreas) : mWorkAreas[i].mJobDone

\* ------------------------------------------------------------- scene ------
\* CRenderScene reduced to what the scheduler changes: the time its objects were
\* built for and the camera's scene size.
DefaultScene == [time |-> NoTime, width |-> skDefaultWidth, height |-> skDefaultHeight]

Reset(scene) == DefaultScene

\* RenderScene.inl installs camera( ... ), whose constructor takes the default size
BuildScene(scene, time) == [time |-> time, width |-> skDefaultWidth, height |-> skDefaultHeight]

\* a SetSceneSize that keeps the size the camera was constructed with
SetSceneSizeIgnored(scene, width, height) == scene

SetSceneSize(scene, width, height) == [scene EXCEPT !.width = width, !.height = height]

\* the colour CRenderScene::DoIntersection( x, y ) returns: a function of the
\* scene and the pixel, kept symbolic
DoIntersection(scene, x, y) == <<scene.time, scene.width, scene.height, x, y>>

\* ------------------------------------------------------------ buffer ------
Pixels(width, height) == (0..(width - 1)) \X (0..(height - 1))

\* CRenderer::SetPixelColor on a buffer of dimensions width x height
SetPixelColor(buffer, width, height, x, y, color) ==
    IF x < width /\ y < height
    THEN [buffer EXCEPT ![y * width + x] = color]
    ELSE buffer

\* the coordinates the worker passes to SetPixelColor for the sample at (x, y)
BlockCoords(x, y) == { <<x + i, y + j>> : i \in 0..(stepSize - 1), j \in 0..(stepSize - 1) }

\* the stores of one sample: every coordinate of the block gets the sample's colour
BlockStored(x, y) == { p \in BlockCoords(x, y) : p[1] < mBufferWidth /\ p[2] < mBufferHeight }

NoWrites(width, height) == [p \in Pixels(width, height) |-> 0]

\* what new uint8_t[...] holds before the fill loop has stored to it
Unwritten == <<"new">>

\* the loops of ResizeBuffer: for x, for y, SetPixelColor( x, y, fill )
RECURSIVE FillFrom(_, _, _, _, _)
FillFrom(buffer, x, y, width, height) ==
    IF x >= width THEN buffer
    ELSE IF y >= height THEN FillFrom(buffer, x + 1, 0, width, height)
    ELSE FillFrom(SetPixelColor(buffer, width, height, x, y, Fill), x, y + 1, width, height)

NewBuffer(width, height) ==
    FillFrom([i \in 0..(width * height - 1) |-> Unwritten], 0, 0, width, height)

\* the loops of the worker over i and j: SetPixelColor( x + i, y + j, color )
RECURSIVE StoreBlock(_, _, _, _, _, _)
StoreBlock(buffer, x, y, i, j, color) ==
    IF i >= stepSize THEN buffer
    ELSE IF j >= stepSize THEN StoreBlock(buffer, x, y, i + 1, 0, color)
    ELSE StoreBlock(SetPixelColor(buffer, mBufferWidth, mBufferHeight, x + i, y + j, color),
                    x, y, i, j + 1, color)

\* the value of frameScene when no frame was started in the current buffer
NoScene == [time |-> NoTime, width |-> 0, height |-> 0]

\* ------------------------------------------------------------- Init -------
\* The worker threads run the same lambda and have no identity the program
\* can observe: workers is the bag of their local states (position pc, the
\* index of pWorkArea from 1, the loop variables x and y).
Thread(pc, area, x, y) == [pc |-> pc, area |-> area, x |-> x, y |-> y]

AtLoop == Thread("loop", 0, 0, 0)

Copies(t, n) == IF n > 0 THEN [e \in {t} |-> n] ELSE EmptyBag

\* no function of the ray tracer is under evaluation
NoCalc == [op |-> "none"]

\* the renderer as its constructor leaves it
Constructed(step) ==
    /\ numProcessors \in 1..MaxProcessors
    /\ stepSize = step
    /\ mBufferWidth = 0
    /\ mBufferHeight = 0
    /\ mTime = 0
    /\ mBuffer = <<>>
    /\ mScene = DefaultScene
    /\ mWorkAreas = <<>>
    /\ mCurrentWorkArea = 0
    /\ mShutdown = FALSE
    /\ workers = Copies(AtLoop, numProcessors)
    /\ dpc = "idle"
    /\ dW = 0
    /\ dH = 0
    /\ dRet = "idle"
    /\ writes = NoWrites(0, 0)
    /\ taker = <<>>
    /\ builds = 0
    /\ calls = 0
    /\ lastCall = "none"
    /\ lastDone = TRUE
    /\ frameScene = NoScene

InitWith(step) ==
    /\ calc = NoCalc
    /\ Constructed(step)

Init == InitWith(skInitialStepSize)

\* ------------------------------------------------------------ workers -----
Running == BagToSet(workers)

\* a worker that has popped a work area and has not yet set its mJobDone
Holding(t) == t.pc \in {"render", "finish"}

\* one thread goes from local state t to local state u
Goes(t, u) == workers' = (workers (-) SetToBag({t})) (+) SetToBag({u})

\* line 1417: while (mShutdown == false)
WorkerLoop(t) ==
    /\ t.pc = "loop"
    /\ Goes(t, Thread(IF mShutdown THEN "exited" ELSE "next", 0, 0, 0))
    /\ UNCHANGED <<calc, numProcessors, stepSize, progVars, driverVars, histVars>>

\* CRenderer::NextWorkArea, the index (from 1) of the area handed out, 0 for nullptr
NextWorkArea ==
    IF mWorkAreas # <<>> /\ mCurrentWorkArea < Len(mWorkAreas)
    THEN mCurrentWorkArea + 1
    ELSE 0

\* line 1419: pWorkArea = NextWorkArea(), under mJobMutex
WorkerNext(t) ==
    /\ t.pc = "next"
    /\ LET a == NextWorkArea IN
       IF a # 0
       THEN /\ mCurrentWorkArea' = mCurrentWorkArea + 1
            /\ Goes(t, Thread("render", a, mWorkAreas[a].mMinX, mWorkAreas[a].mMinY))
            /\ taker' = [taker EXCEPT ![a] = "worker"]
       ELSE /\ Goes(t, Thread("idle", 0, 0, 0))
            /\ UNCHANGED <<mCurrentWorkArea, taker>>
    /\ UNCHANGED <<calc, numProcessors, stepSize, mBufferWidth, mBufferHeight, mTime, mBuffer,
                   mScene, mWorkAreas, mShutdown, driverVars, writes, builds, calls, lastCall, lastDone,
                   frameScene>>

\* the loops without the loop over y: the area ends with its first row
AfterSampleFirstRow(t) ==
    LET a == mWorkAreas[t.area] IN
    IF t.x + stepSize < a.mMaxX THEN Thread("render", t.area, t.x + stepSize, t.y)
    ELSE Thread("finish", t.area, 0, 0)

\* the loops with x outside and y inside: the area is rendered by columns
AfterSampleByColumn(t) ==
    LET a == mWorkAreas[t.area] IN
    IF t.y + stepSize < a.mMaxY THEN Thread("render", t.area, t.x, t.y + stepSize)
    ELSE IF t.x + stepSize < a.mMaxX THEN Thread("render", t.area, t.x + stepSize, a.mMinY)
    ELSE Thread("finish", t.area, 0, 0)

\* lines 1428-1430: the sample after (x, y) in the loops over the area, or the
\* end of the loops
AfterSample(t) ==
    LET a == mWorkAreas[t.area] IN
    IF t.x + stepSize < a.mMaxX THEN Thread("render", t.area, t.x + stepSize, t.y)
    ELSE IF t.y + stepSize < a.mMaxY THEN Thread("render", t.area, a.mMinX, t.y + stepSize)
    ELSE Thread("finish", t.area, 0, 0)

\* lines 1432-1440: one sample of the area: DoIntersection, then the block of stores
WorkerPixel(t) ==
    /\ t.pc = "render"
    /\ mBuffer' = StoreBlock(mBuffer, t.x, t.y, 0, 0, DoIntersection(mScene, t.x, t.y))
    /\ writes' = [p \in DOMAIN writes |->
                     IF p \in BlockStored(t.x, t.y) THEN writes[p] + 1 ELSE writes[p]]
    /\ Goes(t, AfterSample(t))
    /\ UNCHANGED <<calc, numProcessors, stepSize, mBufferWidth, mBufferHeight, mTime, mScene,
                   mWorkAreas, mCurrentWorkArea, mShutdown, driverVars, taker, builds, calls,
                   lastCall, lastDone, frameScene>>

\* line 1444: workArea.mJobDone = true
WorkerFinish(t) ==
    /\ t.pc = "finish"
    /\ mWorkAreas' = [mWorkAreas EXCEPT ![t.area].mJobDone = TRUE]
    /\ Goes(t, AtLoop)
    /\ UNCHANGED <<calc, numProcessors, stepSize, mBufferWidth, mBufferHeight, mTime, mBuffer,
                   mScene, mCurrentWorkArea, mShutdown, driverVars, histVars>>

\* line 1449: if (!mShutdown)
WorkerIdle(t) ==
    /\ t.pc = "idle"
    /\ Goes(t, IF mShutdown THEN AtLoop ELSE Thread("sleep", 0, 0, 0))
    /\ UNCHANGED <<calc, numProcessors, stepSize, progVars, driverVars, histVars>>

Waiting == Thread("waiting", 0, 0, 0)

\* lines 1451-1452: lock mSleepControlMutex and wait on mSleepControl
WorkerSleep(t) ==
    /\ t.pc = "sleep"
    /\ Goes(t, Waiting)
    /\ UNCHANGED <<calc, numProcessors, stepSize, progVars, driverVars, histVars>>

\* condition_variable::wait may return without a notification
WorkerSpuriousWake(t) ==
    /\ t.pc = "waiting"
    /\ Goes(t, AtLoop)
    /\ UNCHANGED <<calc, numProcessors, stepSize, progVars, driverVars, histVars>>

\* mSleepControl.notify_all(): every thread blocked in wait returns and goes round its loop
NotifyAll(threads) ==
    LET n == CopiesIn(Waiting, threads)
    IN  (threads (-) Copies(Waiting, n)) (+) Copies(AtLoop, n)

WorkerStep(t) ==
    \/ WorkerLoop(t)
    \/ WorkerNext(t)
    \/ WorkerPixel(t)
    \/ WorkerFinish(t)
    \/ WorkerIdle(t)
    \/ WorkerSleep(t)

\* ------------------------------------------------------------- driver -----
\* the sizes a caller asks for
Sizes == { sz \in (0..MaxPixels) \X (0..MaxPixels) : sz[1] * sz[2] <= MaxPixels }

\* The arguments of a call are drawn where the call first uses them.

\* line 1477: the guard of Update
UpdateGuard == IsDone

UpdateCall ==
    /\ dpc = "idle"
    /\ dpc' = IF UpdateGuard THEN "UpdateBody" ELSE "idle"
    /\ lastCall' = "Update"
    /\ UNCHANGED <<calc, numProcessors, stepSize, progVars, workers, dW, dH, dRet,
                   writes, taker, builds, frameScene>>

\* an Update that leaves out the call of SetSceneSize
UpdatedSceneDefaultSize(scene, time, width, height) == BuildScene(Reset(scene), time)

\* lines 1479-1482: mTime += deltaTime; Reset; BuildScene; SetSceneSize
UpdatedScene(scene, time, width, height) ==
    SetSceneSize(BuildScene(Reset(scene), time), width, height)

UpdateBody ==
    /\ dpc = "UpdateBody"
    /\ mTime' = mTime + DeltaTime
    /\ mScene' = UpdatedScene(mScene, mTime', mBufferWidth, mBufferHeight)
    /\ builds' = builds + 1
    /\ dpc' = "idle"
    /\ UNCHANGED <<calc, numProcessors, stepSize, mBufferWidth, mBufferHeight, mBuffer,
                   mWorkAreas, mCurrentWorkArea, mShutdown, workers, dW, dH, dRet,
                   writes, taker, calls, lastCall, lastDone, frameScene>>

\* a RenderScene without its test of IsDone
RenderSceneAlways == TRUE

\* line 1542: the guard of RenderScene
RenderSceneGuard == IsDone

RenderSceneCall ==
    /\ dpc = "idle"
    /\ dpc' = IF RenderSceneGuard THEN "RenderSceneFill" ELSE "idle"
    /\ lastCall' = "RenderScene"
    /\ UNCHANGED <<calc, numProcessors, stepSize, progVars, workers, dW, dH, dRet,
                   writes, taker, builds, frameScene>>

\* a RenderScene without the lock: the clear and each push_back are steps of
\* their own, between which a worker may pop
RenderSceneFillPiecewise ==
    /\ dpc = "RenderSceneFill"
    /\ LET target == WorkAreasFor(mBufferWidth, mBufferHeight, numProcessors)
       IN  IF mWorkAreas # <<>> /\ IsDone
           THEN /\ mWorkAreas' = <<>>
                /\ mCurrentWorkArea' = 0
                /\ taker' = <<>>
                /\ writes' = NoWrites(mBufferWidth, mBufferHeight)
                /\ frameScene' = mScene
                /\ dpc' = "RenderSceneFill"
           ELSE IF Len(mWorkAreas) < Len(target)
           THEN /\ mWorkAreas' = Append(mWorkAreas, target[Len(mWorkAreas) + 1])
                /\ mCurrentWorkArea' = IF mWorkAreas = <<>> THEN 0 ELSE mCurrentWorkArea
                /\ taker' = Append(taker, "none")
                /\ writes' = IF mWorkAreas = <<>> THEN NoWrites(mBufferWidth, mBufferHeight)
                                                  ELSE writes
                /\ frameScene' = mScene
                /\ dpc' = "RenderSceneFill"
           ELSE /\ dpc' = "RenderSceneNotify"
                /\ UNCHANGED <<mWorkAreas, mCurrentWorkArea, taker, writes, frameScene>>
    /\ UNCHANGED <<calc, numProcessors, stepSize, mBufferWidth, mBufferHeight, mTime, mBuffer,
                   mScene, mShutdown, workers, dW, dH, dRet, builds, calls, lastCall, lastDone>>

\* lines 1546-1566, under mJobMutex: clear, reset the cursor, push the new areas
RenderSceneFill ==
    /\ dpc = "RenderSceneFill"
    /\ mWorkAreas' = WorkAreasFor(mBufferWidth, mBufferHeight, numProcessors)
    /\ mCurrentWorkArea' = 0
    /\ taker' = [i \in 1..Len(mWorkAreas') |-> "none"]
    /\ writes' = NoWrites(mBufferWidth, mBufferHeight)
    /\ frameScene' = mScene
    /\ dpc' = "RenderSceneNotify"
    /\ UNCHANGED <<calc, numProcessors, stepSize, mBufferWidth, mBufferHeight, mTime, mBuffer,
                   mScene, mShutdown, workers, dW, dH, dRet, builds, calls, lastCall, lastDone>>

\* line 1571: mSleepControl.notify_all(), after the lock is released
RenderSceneNotify ==
    /\ dpc = "RenderSceneNotify"
    /\ workers' = NotifyAll(workers)
    /\ dpc' = "idle"
    /\ UNCHANGED <<calc, numProcessors, stepSize, progVars, dW, dH, dRet, histVars>>

\* a Cancel that declares every area done, from the first one
SkippedAll(areas, cursor) == { i \in 1..Len(areas) : TRUE }

\* a Cancel that declares only the next area done (an if for the while)
SkippedOne(areas, cursor) == { i \in 1..Len(areas) : i = cursor + 1 }

\* lines 1502-1506, under mJobMutex: the areas Cancel declares done
Skipped(areas, cursor) == { i \in 1..Len(areas) : i > cursor }

CancelLock(ret, call) ==
    /\ mWorkAreas' = [i \in 1..Len(mWorkAreas) |->
                         IF i \in Skipped(mWorkAreas, mCurrentWorkArea)
                         THEN [mWorkAreas[i] EXCEPT !.mJobDone = TRUE]
                         ELSE mWorkAreas[i]]
    /\ mCurrentWorkArea' = max_val(mCurrentWorkArea, Len(mWorkAreas))
    /\ taker' = [i \in 1..Len(mWorkAreas) |->
                    IF i \in Skipped(mWorkAreas, mCurrentWorkArea) THEN "cancel" ELSE taker[i]]
    /\ dpc' = "CancelWait"
    /\ dRet' = ret
    /\ lastCall' = call
    /\ UNCHANGED <<calc, numProcessors, stepSize, mBufferWidth, mBufferHeight, mTime, mBuffer,
                   mScene, mShutdown, workers, dW, dH, writes, builds, frameScene>>

CancelCall ==
    /\ dpc = "idle"
    /\ CancelLock("idle", "Cancel")

\* a Cancel that does not wait for the workers
CancelReturnsAtOnce == TRUE

\* line 1510: the condition that ends Cancel's wait loop
CancelMayReturn == IsDone

\* lines 1510-1513: while (!IsDone()) yield; then the caller goes on
CancelWait ==
    /\ dpc = "CancelWait"
    /\ CancelMayReturn
    /\ \/ /\ dRet = "idle"
          /\ dpc' = "idle"
          /\ UNCHANGED <<dW, dH>>
       \/ /\ dRet = "WmSize"
          /\ dpc' = "WmSize"
          /\ UNCHANGED <<dW, dH>>
       \/ /\ dRet = "ResizeBuffer"
          /\ dpc' = "ResizeBufferBody"
          /\ \E sz \in Sizes : dW' = sz[1] /\ dH' = sz[2]
    /\ dRet' = "idle"
    /\ UNCHANGED <<calc, numProcessors, stepSize, progVars, workers, histVars>>

\* lines 1518-1521: if (!IsDone()) Cancel();
ResizeBufferCall ==
    /\ dpc = "idle"
    /\ IF IsDone
       THEN /\ dpc' = "ResizeBufferBody"
            /\ \E sz \in Sizes : dW' = sz[1] /\ dH' = sz[2]
            /\ lastCall' = "ResizeBuffer"
            /\ UNCHANGED <<calc, numProcessors, stepSize, progVars, workers, dRet,
                           writes, taker, builds, frameScene>>
       ELSE CancelLock("ResizeBuffer", "ResizeBuffer")

\* the test with && for ||
SizeChangedBoth(width, height) == width # mBufferWidth /\ height # mBufferHeight

\* line 1523: width != mBufferWidth || height != mBufferHeight
SizeChanged(width, height) == width # mBufferWidth \/ height # mBufferHeight

\* lines 1523-1537: reallocate and fill if the size changed; SetSceneSize
ResizeBufferBody ==
    /\ dpc = "ResizeBufferBody"
    /\ IF SizeChanged(dW, dH)
       THEN /\ mBuffer' = NewBuffer(dW, dH)
            /\ mBufferWidth' = dW
            /\ mBufferHeight' = dH
            /\ writes' = NoWrites(dW, dH)
            /\ frameScene' = NoScene
       ELSE UNCHANGED <<mBuffer, mBufferWidth, mBufferHeight, writes, frameScene>>
    /\ mScene' = SetSceneSize(mScene, dW, dH)
    /\ dpc' = "idle"
    /\ dW' = 0
    /\ dH' = 0
    /\ UNCHANGED <<calc, numProcessors, stepSize, mTime, mWorkAreas, mCurrentWorkArea, mShutdown,
                   workers, dRet, taker, builds, calls, lastCall, lastDone>>

\* WndProc, WM_SIZE, line 1713: pRenderer->Cancel()
WmSize ==
    /\ dpc = "idle"
    /\ CancelLock("WmSize", "WmSize")

\* line 1720: (LOWORD( lParam ) + 3) & ~3
BufferWidthFor(clientWidth) == ((clientWidth + 3) \div 4) * 4

\* line 1723: the sizes WM_SIZE passes on to ResizeBuffer
WmSizeAccepts(bufferWidth, bufferHeight) == bufferWidth # 0 /\ bufferHeight # 0

\* lines 1715-1725: wait for IsDone, then ResizeBuffer unless a dimension is zero
WmSizeResize ==
    /\ dpc = "WmSize"
    /\ IsDone
    /\ \E client \in Sizes :
         /\ <<BufferWidthFor(client[1]), client[2]>> \in Sizes
         /\ IF WmSizeAccepts(BufferWidthFor(client[1]), client[2])
            THEN /\ dpc' = "ResizeBufferBody"
                 /\ dW' = BufferWidthFor(client[1])
                 /\ dH' = client[2]
            ELSE /\ dpc' = "idle"
                 /\ UNCHANGED <<dW, dH>>
    /\ UNCHANGED <<calc, numProcessors, stepSize, progVars, workers, dRet, histVars>>

\* ~CRenderer, line 1462: mShutdown = true
Destroy ==
    /\ dpc = "idle"
    /\ mShutdown' = TRUE
    /\ dpc' = "DestroyNotify"
    /\ lastCall' = "Destroy"
    /\ UNCHANGED <<calc, numProcessors, stepSize, mBufferWidth, mBufferHeight, mTime, mBuffer,
                   mScene, mWorkAreas, mCurrentWorkArea, workers, dW, dH, dRet,
                   writes, taker, builds, frameScene>>

\* line 1463: mSleepControl.notify_all()
DestroyNotify ==
    /\ dpc = "DestroyNotify"
    /\ workers' = NotifyAll(workers)
    /\ dpc' = "DestroyJoin"
    /\ UNCHANGED <<calc, numProcessors, stepSize, progVars, dW, dH, dRet, histVars>>

AllExited == \A t \in Running : t.pc = "exited"

\* lines 1465-1471: join every thread
DestroyJoin ==
    /\ dpc = "DestroyJoin"
    /\ AllExited
    /\ dpc' = "destroyed"
    /\ UNCHANGED <<calc, numProcessors, stepSize, progVars, workers, dW, dH, dRet, histVars>>

\* the steps in which the driver goes on with a call it has started
DriverContinue ==
    \/ UpdateBody
    \/ RenderSceneFill
    \/ RenderSceneNotify
    \/ CancelWait
    \/ ResizeBufferBody
    \/ WmSizeResize
    \/ DestroyNotify
    \/ DestroyJoin

\* the steps in which the driver starts a call
DriverCall ==
    /\ calls < MaxCalls
    /\ calls' = calls + 1
    /\ lastDone' = IsDone
    /\ \/ UpdateCall
       \/ RenderSceneCall
       \/ CancelCall
       \/ ResizeBufferCall
       \/ WmSize
       \/ Destroy

Next ==
    \/ DriverCall
    \/ DriverContinue
    \/ \E t \in Running : WorkerStep(t)
    \/ \E t \in Running : WorkerSpuriousWake(t)

Spec == Init /\ [][Next]_vars

\* the block-preview builds: skInitialStepSize set to any stride of 1..MaxStep
InitStep == \E step \in 1..MaxStep : InitWith(step)

SpecStep == InitStep /\ [][Next]_vars

\* every local state a thread can be in
ThreadStates ==
    { Thread(pc, 0, 0, 0) : pc \in {"loop", "next", "idle", "sleep"} }
    \cup { Thread(pc, a, x, y) : pc \in {"render", "finish"}, a \in 1..MaxPixels,
                                 x \in 0..MaxPixels, y \in 0..MaxPixels }

\* the scheduler runs every thread that can take a step, and a call that was
\* started goes on; nothing makes the driver start another call, and nothing
\* makes a wait return without a notification
FairSpec ==
    /\ Spec
    /\ \A t \in ThreadStates : WF_vars(t \in Running /\ WorkerStep(t))
    /\ WF_vars(DriverContinue)

\* ------------------------------------------------------------- claims -----
\* the positions at which the driver is about to change the scene, the buffer
\* or the list of work areas
DriverMutates == dpc \in {"UpdateBody", "ResizeBufferBody", "RenderSceneFill"}

NoWorkerHolds == \A t \in Running : ~Holding(t)

\* C1: whenever IsDone holds no worker is between popping a work area and
\* setting its mJobDone, and whenever the driver is about to change the scene
\* (Update), the buffer or the scene size (ResizeBuffer) or the list of work
\* areas (RenderScene), no worker holds a work area.
C1_DoneMeansNoWorkerHolds ==
    /\ IsDone => NoWorkerHolds
    /\ DriverMutates => IsDone /\ NoWorkerHolds

\* C1 witness: ResizeBuffer arrived in the middle of a frame: some areas were
\* rendered by workers, the others were skipped by Cancel, and the driver is
\* now about to replace the buffer.
C1_Witness ==
    /\ dpc = "ResizeBufferBody"
    /\ \E i \in 1..Len(taker) : taker[i] = "worker"
    /\ \E i \in 1..Len(taker) : taker[i] = "cancel"

\* C2: once RenderScene has created work areas and notified the workers, the
\* frame completes (IsDone) unless the driver starts another call.
C2_FrameCompletes ==
    \A n \in 0..MaxCalls :
        (dpc = "idle" /\ calls = n /\ ~IsDone) ~> (IsDone \/ calls # n)

\* C4: once the destructor has set mShutdown, every worker leaves its loop and
\* the joins return.
C4_ShutdownTerminates == mShutdown ~> (dpc = "destroyed")

\* the pixels of work area a
AreaPixels(a) == { p \in Pixels(a.mMaxX, a.mMaxY) : p[1] >= a.mMinX /\ p[2] >= a.mMinY }

\* the buffer is the one the current work areas were created for
FrameInBuffer == frameScene # NoScene

HeldBy(i) == { t \in Running : Holding(t) /\ t.area = i }

\* C3: Cancel leaves the cursor at the number of areas; while it waits, every
\* area that is not done is in the hands of a worker that can take a step, so
\* the wait ends; when it has returned IsDone holds; an area Cancel skipped is
\* done, none of its pixels was stored and no worker ever holds it; an area a
\* worker popped is held by that worker alone until it is done, and once done
\* every pixel of it has been stored.
C3_CancelSkipsAndDrains ==
    /\ dpc = "CancelWait" => mCurrentWorkArea = Len(mWorkAreas)
    /\ dpc = "CancelWait" =>
           \A i \in 1..Len(mWorkAreas) : ~mWorkAreas[i].mJobDone => HeldBy(i) # {}
    /\ (dpc \in {"WmSize", "ResizeBufferBody"} \/ (dpc = "idle" /\ lastCall = "Cancel"))
           => IsDone /\ mCurrentWorkArea = Len(mWorkAreas)
    /\ \A i \in 1..Len(mWorkAreas) :
           /\ taker[i] = "cancel" =>
                  /\ mWorkAreas[i].mJobDone
                  /\ HeldBy(i) = {}
                  /\ FrameInBuffer => \A p \in AreaPixels(mWorkAreas[i]) : writes[p] = 0
           /\ (taker[i] = "worker" /\ mWorkAreas[i].mJobDone /\ FrameInBuffer) =>
                  \A p \in AreaPixels(mWorkAreas[i]) : writes[p] = 1
           /\ taker[i] = "none" => i > mCurrentWorkArea /\ ~mWorkAreas[i].mJobDone
    /\ \A t \in Running : Holding(t) =>
           /\ taker[t.area] = "worker"
           /\ ~mWorkAreas[t.area].mJobDone
           /\ CopiesIn(t, workers) = 1
           /\ HeldBy(t.area) = {t}

\* C3 witness: Cancel has skipped an area while a worker is in the middle of
\* another one, past its first pixel, and Cancel waits for it.
C3_Witness ==
    /\ dpc = "CancelWait"
    /\ lastCall = "Cancel"
    /\ \E i \in 1..Len(taker) : taker[i] = "cancel"
    /\ \E t \in Running : t.pc = "render" /\ t.x > mWorkAreas[t.area].mMinX

\* a step in which the driver starts the call named call
Starts(call) == calls' # calls /\ lastCall' = call

\* a step in which the driver leaves position pc
Leaves(pc) == dpc = pc /\ dpc' # pc

\* C5: a RenderScene that finds IsDone false changes nothing and notifies
\* nobody; one that finds it true replaces the work areas by fresh ones for the
\* current buffer, sets the cursor to 0 and then wakes every waiting worker;
\* the work areas are replaced and the cursor goes back in no other step.
C5_RenderSceneOnlyWhenDone ==
    [][ /\ Starts("RenderScene") =>
               /\ UNCHANGED <<progVars, workers>>
               /\ dpc' = IF IsDone THEN "RenderSceneFill" ELSE "idle"
        /\ Leaves("RenderSceneFill") =>
               /\ mWorkAreas' = WorkAreasFor(mBufferWidth, mBufferHeight, numProcessors)
               /\ \A i \in 1..Len(mWorkAreas') : ~mWorkAreas'[i].mJobDone
               /\ mCurrentWorkArea' = 0
               /\ dpc' = "RenderSceneNotify"
               /\ UNCHANGED <<mBuffer, mBufferWidth, mBufferHeight, mScene, mTime, workers>>
        /\ Leaves("RenderSceneNotify") =>
               /\ CopiesIn(Waiting, workers') = 0
               /\ CopiesIn(AtLoop, workers') = CopiesIn(AtLoop, workers) + CopiesIn(Waiting, workers)
               /\ UNCHANGED progVars
        /\ (Len(mWorkAreas') # Len(mWorkAreas) \/ mCurrentWorkArea' < mCurrentWorkArea)
               => dpc = "RenderSceneFill"
      ]_vars

\* C5 witness: the last call was a RenderScene that found a frame in flight,
\* with work areas already popped, and returned.
C5_Witness ==
    /\ lastCall = "RenderScene"
    /\ ~lastDone
    /\ dpc = "idle"
    /\ \E i \in 1..Len(taker) : taker[i] = "worker"

\* C6: an Update that finds IsDone false changes neither mTime nor the scene;
\* one that finds it true adds deltaTime to mTime, rebuilds the scene once, for
\* the new time, and gives it the buffer's width and height; mTime and the
\* scene's content change in no other step.
C6_UpdateOnlyWhenDone ==
    [][ /\ Starts("Update") =>
               /\ UNCHANGED <<progVars, workers, builds>>
               /\ dpc' = IF IsDone THEN "UpdateBody" ELSE "idle"
        /\ Leaves("UpdateBody") =>
               /\ mTime' = mTime + DeltaTime
               /\ builds' = builds + 1
               /\ mScene' = [time |-> mTime', width |-> mBufferWidth, height |-> mBufferHeight]
               /\ UNCHANGED <<mBuffer, mBufferWidth, mBufferHeight, mWorkAreas,
                              mCurrentWorkArea, workers>>
        /\ (mTime' # mTime \/ builds' # builds \/ mScene'.time # mScene.time)
               => dpc = "UpdateBody"
      ]_vars

\* C6 witness: an Update that found a finished frame has rebuilt the scene for
\* a buffer that is not empty.
C6_Witness ==
    /\ lastCall = "Update"
    /\ lastDone
    /\ dpc = "idle"
    /\ builds = 1
    /\ mBufferWidth > 0 /\ mBufferHeight > 0
    /\ mScene = [time |-> DeltaTime, width |-> mBufferWidth, height |-> mBufferHeight]
    /\ \E i \in 1..Len(taker) : taker[i] = "worker"

\* C7: a ResizeBuffer that finds a frame in flight runs Cancel first; its body
\* runs with IsDone and no worker holding an area; when it returns IsDone holds
\* and the scene size is (w, h); if (w, h) differs from the buffer's size the
\* buffer is replaced by w*h pixels, the pixel (x, y) at index y*w + x, all of
\* the fill colour, and the size becomes (w, h); otherwise the buffer and its
\* size are unchanged.
C7_ResizeBuffer ==
    [][ /\ Starts("ResizeBuffer") =>
               IF IsDone
               THEN dpc' = "ResizeBufferBody" /\ UNCHANGED <<progVars, workers>>
               ELSE /\ dpc' = "CancelWait"
                    /\ mCurrentWorkArea' = Len(mWorkAreas')
                    /\ UNCHANGED <<mBuffer, mBufferWidth, mBufferHeight, mScene>>
        /\ Leaves("ResizeBufferBody") =>
               /\ IsDone /\ NoWorkerHolds
               /\ dpc' = "idle"
               /\ IsDone'
               /\ mScene' = [time |-> mScene.time, width |-> dW, height |-> dH]
               /\ IF dW # mBufferWidth \/ dH # mBufferHeight
                  THEN /\ mBufferWidth' = dW
                       /\ mBufferHeight' = dH
                       /\ DOMAIN mBuffer' = 0..(dW * dH - 1)
                       /\ \A p \in Pixels(dW, dH) : mBuffer'[p[2] * dW + p[1]] = Fill
                  ELSE UNCHANGED <<mBuffer, mBufferWidth, mBufferHeight>>
      ]_vars

\* C7 witness: a ResizeBuffer that found a frame in flight has skipped areas,
\* waited for the worker, replaced the buffer by one that is not empty, and
\* returned.
C7_Witness ==
    /\ lastCall = "ResizeBuffer"
    /\ ~lastDone
    /\ dpc = "idle"
    /\ \E i \in 1..Len(taker) : taker[i] = "cancel"
    /\ \E i \in 1..Len(taker) : taker[i] = "worker"
    /\ frameScene = NoScene
    /\ mBufferWidth * mBufferHeight > 1

\* C8: a ResizeBuffer with width 0 or height 0 leaves the buffer, its
\* dimensions, the scene size, the work areas and the cursor as they were.
C8_ZeroSizeResizeIsNoOp ==
    [][ (Leaves("ResizeBufferBody") /\ (dW = 0 \/ dH = 0)) =>
            UNCHANGED <<mBuffer, mBufferWidth, mBufferHeight, mScene, mWorkAreas,
                        mCurrentWorkArea>>
      ]_vars

\* every work area of the frame was popped by a worker, none skipped by Cancel
FrameNotCancelled == \A i \in 1..Len(taker) : taker[i] = "worker"

\* C9: when a frame started by RenderScene in the current buffer is done and
\* Cancel skipped none of its areas, every pixel (x, y) of the buffer was
\* written exactly once in the frame and holds DoIntersection(x, y) of the
\* scene the frame started with: the buffer is a function of that scene alone,
\* whatever the number of workers and the order of their steps.
C9_FrameIsDeterministic ==
    (IsDone /\ FrameInBuffer /\ FrameNotCancelled) =>
        \A p \in Pixels(mBufferWidth, mBufferHeight) :
            /\ writes[p] = 1
            /\ mBuffer[p[2] * mBufferWidth + p[1]] = DoIntersection(frameScene, p[1], p[2])

\* C9 witness: a frame of a scene built by Update, in a buffer of several
\* pixels and more than one work area, one of them of several pixels, is done
\* with none of its areas skipped.
C9_Witness ==
    /\ IsDone /\ FrameInBuffer /\ FrameNotCancelled
    /\ frameScene.time = DeltaTime
    /\ Len(mWorkAreas) > 1
    /\ \E i \in 1..Len(mWorkAreas) : Cardinality(AreaPixels(mWorkAreas[i])) > 1
    /\ \A t \in Running : t.pc = "waiting"

\* C10: every store of a worker is to a pixel of the work area it holds, and no
\* pixel is stored to twice in a frame, for every pixel stride.
C10_WritesInsideArea ==
    /\ \A t \in Running :
           t.pc = "render" => BlockStored(t.x, t.y) \subseteq AreaPixels(mWorkAreas[t.area])
    /\ \A p \in DOMAIN writes : writes[p] <= 1

\* ===========================================================================
\* The ray tracer's functions.  Each is evaluated on its own, with the renderer
\* at rest: calc holds the call, the scheduler's variables do not change.
\* ===========================================================================
schedVars == <<numProcessors, stepSize, progVars, workers, driverVars, histVars>>

\* the renderer at rest on one processor, evaluating nothing yet
AtRest == Constructed(skInitialStepSize) /\ numProcessors = 1

\* ------------------------------------------------------------ real32 ------
\* real32 is modelled in fixed point: Scale units to 1.0, every product,
\* quotient and square root rounded to the nearest unit.  The operators split
\* their operands so that no intermediate value leaves TLC's 32-bit integers.
Scale == 10000

AbsF(value) == IF value < 0 THEN 0 - value ELSE value

\* n / d rounded to the nearest integer, d > 0
RoundDiv(n, d) ==
    LET q == n \div d
        r == n % d
    IN  IF 2 * r >= d THEN q + 1 ELSE q

\* a * b
MulF(a, b) ==
    LET ah == a \div Scale
        al == a % Scale
        bh == b \div Scale
        bl == b % Scale
    IN  ah * bh * Scale + ah * bl + al * bh + RoundDiv(al * bl, Scale)

RECURSIVE Digits(_, _, _, _)
\* long division: n more decimal digits of r / b after the quotient q, 0 <= r < b,
\* the last one rounded
Digits(q, r, b, n) ==
    IF n = 0 THEN (IF 2 * r >= b THEN q + 1 ELSE q)
    ELSE Digits(10 * q + (10 * r) \div b, (10 * r) % b, b, n - 1)

\* the decimal digits of Scale
ScaleDigits == 4

\* a / b for b > 0
DivPos(a, b) == Digits(a \div b, a % b, b, ScaleDigits)

\* a / b, b # 0
DivF(a, b) == IF b > 0 THEN DivPos(a, b) ELSE DivPos(0 - a, 0 - b)

\* floorf( value )
floorf(value) == (value \div Scale) * Scale

\* NMath::lerp
lerp(a, b, t) == a + MulF(b - a, t)

RECURSIVE SqrtBetween(_, _, _)
\* the largest r in lo..hi with r * r <= a * Scale
SqrtBetween(a, lo, hi) ==
    IF lo >= hi THEN lo
    ELSE LET mid == (lo + hi + 1) \div 2
         IN  IF (mid * mid - 1) \div Scale < a
             THEN SqrtBetween(a, mid, hi)
             ELSE SqrtBetween(a, lo, mid - 1)

\* the largest square root the model takes, in units
MaxRoot == 46000

\* sqrtf( a ), for a up to 21.0
SqrtF(a) ==
    LET r == SqrtBetween(a, 0, MaxRoot)
    IN  IF (r * r + r) \div Scale < a THEN r + 1 ELSE r

\* 1e12f is more than TLC's integers hold: the model's seed is 200000.0, above
\* every distance the model computes
skLargeNumber == 200000 * Scale

\* ---------------------------------------------------------- CVector3f -----
CVector3f(x, y, z) == <<x, y, z>>

Zero == CVector3f(0, 0, 0)

VAdd(lhs, rhs) == CVector3f(lhs[1] + rhs[1], lhs[2] + rhs[2], lhs[3] + rhs[3])

VSub(lhs, rhs) == CVector3f(lhs[1] - rhs[1], lhs[2] - rhs[2], lhs[3] - rhs[3])

VNeg(v) == CVector3f(0 - v[1], 0 - v[2], 0 - v[3])

VScale(v, rhs) == CVector3f(MulF(v[1], rhs), MulF(v[2], rhs), MulF(v[3], rhs))

Dot(lhs, rhs) == MulF(lhs[1], rhs[1]) + MulF(lhs[2], rhs[2]) + MulF(lhs[3], rhs[3])

Magnitude(v) == SqrtF(Dot(v, v))

\* ------------------------------------------------------- render objects ---
\* mInverseTransform * point, for the objects of the model, which are placed
\* by translation: mInverseTransform is given by its translation
TransformPoint(inverseTranslation, point) == VAdd(point, inverseTranslation)

CRenderSphere(center, radius) ==
    [kind |-> "sphere", mCenter |-> center, mRadius |-> radius, mInverseTransform |-> Zero]

CRenderPlane(normal, height) ==
    [kind |-> "plane", mNormal |-> normal, mHeight |-> height, mInverseTransform |-> Zero]

\* 0.5f
Half == Scale \div 2

CRenderCube(size) ==
    [kind |-> "cube", mSize |-> VScale(size, Half), mInverseTransform |-> Zero]

\* a custom object whose callback returns value at every point
CRenderCustom(value) ==
    [kind |-> "custom", mCustomFunction |-> value, mInverseTransform |-> Zero]

\* the composites: kind is "union", "intersection", "difference" or "smoothunion"
CComposite(kind, objects, k) ==
    [kind |-> kind, mObjectList |-> objects, mK |-> k, mInverseTransform |-> Zero]

\* object << translate( t ): SetTransform stores the inverse, a translation by -t
Translated(object, t) == [object EXCEPT !.mInverseTransform = VNeg(t)]

SphereDistance(object, point) == Magnitude(VSub(point, object.mCenter)) - object.mRadius

PlaneDistance(object, point) == Dot(object.mNormal, point) - object.mHeight

CubeDistance(object, point) ==
    LET x == AbsF(point[1]) - object.mSize[1]
        y == AbsF(point[2]) - object.mSize[2]
        z == AbsF(point[3]) - object.mSize[3]
        d == Magnitude(CVector3f(max_val(x, 0), max_val(y, 0), max_val(z, 0)))
        du == max_val(max_val(min_val(x, 0), min_val(y, 0)), min_val(z, 0))
    IN  d + du

\* 1.f / 6.f
Sixth == DivF(Scale, 6 * Scale)

\* a smooth union that adds the correction
SmoothUnionAdding(d1, d2, k) ==
    LET h == DivF(max_val(k - AbsF(d1 - d2), 0), k)
    IN  min_val(d1, d2) + MulF(MulF(MulF(MulF(h, h), h), k), Sixth)

\* CRenderSmoothUnion::SmoothUnion
SmoothUnion(d1, d2, k) ==
    LET h == DivF(max_val(k - AbsF(d1 - d2), 0), k)
    IN  min_val(d1, d2) - MulF(MulF(MulF(MulF(h, h), h), k), Sixth)

\* an intersection whose maximum starts below every distance
IntersectionSeedLow == 0 - skLargeNumber

\* the value CRenderIntersection's loop starts from
IntersectionSeed == 0

\* a union whose minimum starts from the intersection's seed
UnionSeedZero == IntersectionSeed

\* the value CRenderUnion's loop starts from
UnionSeed == skLargeNumber

\* the value CRenderDifference's loop starts from
DifferenceSeed == 0

RECURSIVE GetDistanceToPoint(_, _)
RECURSIVE UnionFrom(_, _, _, _)
RECURSIVE IntersectionFrom(_, _, _, _)
RECURSIVE DifferenceFrom(_, _, _, _)
RECURSIVE SmoothUnionFrom(_, _, _, _, _)

\* CRenderObject::GetTransformedDistanceToPoint
GetTransformedDistanceToPoint(object, point) ==
    GetDistanceToPoint(object, TransformPoint(object.mInverseTransform, point))

\* the loop of CRenderUnion::GetDistanceToPoint from object i on
UnionFrom(objects, i, point, minValue) ==
    IF i > Len(objects) THEN minValue
    ELSE UnionFrom(objects, i + 1, point,
                   min_val(minValue, GetTransformedDistanceToPoint(objects[i], point)))

\* the loop of CRenderIntersection::GetDistanceToPoint from object i on
IntersectionFrom(objects, i, point, maxValue) ==
    IF i > Len(objects) THEN maxValue
    ELSE IntersectionFrom(objects, i + 1, point,
                          max_val(maxValue, GetTransformedDistanceToPoint(objects[i], point)))

\* the loop of CRenderDifference::GetDistanceToPoint from object i on
DifferenceFrom(objects, i, point, maxValue) ==
    IF i > Len(objects) THEN maxValue
    ELSE LET distance == (IF i > 1 THEN 0 - 1 ELSE 1)
                             * GetTransformedDistanceToPoint(objects[i], point)
         IN  DifferenceFrom(objects, i + 1, point, max_val(maxValue, distance))

\* the loop of CRenderSmoothUnion::GetDistanceToPoint from object i on
SmoothUnionFrom(objects, i, point, k, minValue) ==
    IF i > Len(objects) THEN minValue
    ELSE SmoothUnionFrom(objects, i + 1, point, k,
             IF i = 1 THEN GetTransformedDistanceToPoint(objects[i], point)
             ELSE SmoothUnion(minValue, GetTransformedDistanceToPoint(objects[i], point), k))

\* CRenderBlend::GetDistanceToPoint reading the child above the upper position
BlendDistanceShifted(object, point) ==
    LET lowerPosition == floorf(object.mK) \div Scale + 1
        upperPosition == lowerPosition + 1
        there == TransformPoint(object.mInverseTransform, point)
        d0 == IF lowerPosition < Len(object.mObjectList)
              THEN GetTransformedDistanceToPoint(object.mObjectList[lowerPosition + 1], there)
              ELSE skLargeNumber
        d1 == IF upperPosition < Len(object.mObjectList)
              THEN GetTransformedDistanceToPoint(object.mObjectList[upperPosition + 1], there)
              ELSE skLargeNumber
    IN  lerp(d0, d1, object.mK - floorf(object.mK))

\* CRenderBlend::GetDistanceToPoint, mK >= 0; positions count from 0 as in the vector
BlendDistance(object, point) ==
    LET lowerPosition == floorf(object.mK) \div Scale
        upperPosition == lowerPosition + 1
        there == TransformPoint(object.mInverseTransform, point)
        d0 == IF lowerPosition < Len(object.mObjectList)
              THEN GetTransformedDistanceToPoint(object.mObjectList[lowerPosition + 1], there)
              ELSE skLargeNumber
        d1 == IF upperPosition < Len(object.mObjectList)
              THEN GetTransformedDistanceToPoint(object.mObjectList[upperPosition + 1], there)
              ELSE skLargeNumber
    IN  lerp(d0, d1, object.mK - floorf(object.mK))

\* the virtual GetDistanceToPoint of the object's class
GetDistanceToPoint(object, point) ==
    CASE object.kind = "sphere" -> SphereDistance(object, point)
      [] object.kind = "plane" -> PlaneDistance(object, point)
      [] object.kind = "cube" -> CubeDistance(object, point)
      [] object.kind = "custom" -> object.mCustomFunction
      [] object.kind = "union" -> UnionFrom(object.mObjectList, 1, point, UnionSeed)
      [] object.kind = "intersection" ->
             IntersectionFrom(object.mObjectList, 1, point, IntersectionSeed)
      [] object.kind = "difference" ->
             DifferenceFrom(object.mObjectList, 1, point, DifferenceSeed)
      [] object.kind = "smoothunion" ->
             SmoothUnionFrom(object.mObjectList, 1, point, object.mK, skLargeNumber)
      [] object.kind = "blend" -> BlendDistance(object, point)

\* ------------------------------------------- evaluating a distance --------
\* the values the callbacks of the custom objects return
CustomDistances == {0 - 4000, 0, 3000, 10000, 14990}

\* the k of the smooth unions
SmoothFactors == {5000, 10000}

Primitives ==
    { CRenderSphere(CVector3f(0 - 6000, 0, 0), Scale),
      Translated(CRenderSphere(Zero, Scale), CVector3f(6000, 0, 0)),
      CRenderPlane(CVector3f(0, Scale, 0), 0),
      CRenderCube(CVector3f(Scale, Scale, Scale)) }
    \cup { CRenderCustom(d) : d \in CustomDistances }

ObjectLists == UNION { [1..n -> Primitives] : n \in 0..MaxChildren }

Composites ==
    { CComposite(kind, objects, 0) :
          kind \in {"union", "intersection", "difference"}, objects \in ObjectLists }
    \cup { CComposite("smoothunion", objects, k) : objects \in ObjectLists, k \in SmoothFactors }

Objects == Primitives \cup Composites

Points ==
    { CVector3f(x, y, 0) : x \in {0 - 16000, 0 - 6000, 0, 6000, 16000}, y \in {0 - 3000, 0, 5000} }

\* a caller is about to ask an object for its distance to a point
InitDistance ==
    /\ AtRest
    /\ calc \in { [op |-> "GetTransformedDistanceToPoint", pc |-> "call", object |-> o,
                   point |-> p, result |-> 0] : o \in Objects, p \in Points }

\* the call returns
DistanceReturn ==
    /\ calc.op = "GetTransformedDistanceToPoint"
    /\ calc.pc = "call"
    /\ calc' = [calc EXCEPT !.pc = "return",
                            !.result = GetTransformedDistanceToPoint(calc.object, calc.point)]
    /\ UNCHANGED schedVars

NextDistance == DistanceReturn

SpecDistance == InitDistance /\ [][NextDistance]_vars

\* the call of GetTransformedDistanceToPoint on an object of this kind has returned
Returned(kind) ==
    /\ calc.op = "GetTransformedDistanceToPoint"
    /\ calc.pc = "return"
    /\ calc.object.kind = kind

\* the transformed distances of the composite's objects at the point of the call
ChildDistances ==
    LET point == TransformPoint(calc.object.mInverseTransform, calc.point)
    IN  [i \in 1..Len(calc.object.mObjectList) |->
            GetTransformedDistanceToPoint(calc.object.mObjectList[i], point)]

\* C11: the distance of a union of at least one object is the least of its
\* objects' transformed distances: it is one of them and none is below it.
C11_UnionIsMinimum ==
    (Returned("union") /\ Len(calc.object.mObjectList) >= 1) =>
        /\ \A i \in DOMAIN ChildDistances : calc.result <= ChildDistances[i]
        /\ \E i \in DOMAIN ChildDistances : calc.result = ChildDistances[i]

\* C11 witness: the union of two unit spheres at x = -0.6 and x = +0.6 has
\* distance -0.4 at the origin.
C11_Witness ==
    /\ Returned("union")
    /\ calc.object.mObjectList = << CRenderSphere(CVector3f(0 - 6000, 0, 0), Scale),
                                    Translated(CRenderSphere(Zero, Scale), CVector3f(6000, 0, 0)) >>
    /\ calc.point = Zero
    /\ calc.result = 0 - 4000

\* C12: the distance of an intersection is the greatest of 0 and its objects'
\* transformed distances: it is never negative, and where every object's
\* distance is negative it is 0.
C12_IntersectionIsMaximumWithZero ==
    Returned("intersection") =>
        /\ calc.result >= 0
        /\ \A i \in DOMAIN ChildDistances : calc.result >= ChildDistances[i]
        /\ calc.result = 0 \/ \E i \in DOMAIN ChildDistances : calc.result = ChildDistances[i]
        /\ (\A i \in DOMAIN ChildDistances : ChildDistances[i] < 0) => calc.result = 0

\* C12 witness: the origin is strictly inside both unit spheres, at distance
\* -0.4 of each, and their intersection returns 0.
C12_Witness ==
    /\ Returned("intersection")
    /\ Len(calc.object.mObjectList) = 2
    /\ \A i \in DOMAIN ChildDistances : ChildDistances[i] = 0 - 4000
    /\ calc.result = 0

\* the terms of the difference: the first object's distance, the others' negated
DifferenceTerms ==
    [i \in DOMAIN ChildDistances |->
        IF i = 1 THEN ChildDistances[1] ELSE 0 - ChildDistances[i]]

\* C13: the distance of a difference is max(d_0, -d_1, -d_2, ...) of its
\* objects' transformed distances: one of these terms, and none above it.
C13_DifferenceIsMaximumOfTerms ==
    (Returned("difference") /\ Len(calc.object.mObjectList) >= 1) =>
        /\ \A i \in DOMAIN DifferenceTerms : calc.result >= DifferenceTerms[i]
        /\ \E i \in DOMAIN DifferenceTerms : calc.result = DifferenceTerms[i]

\* ---- the solids the objects describe, by geometry and in exact arithmetic
RECURSIVE Inside(_, _)
RECURSIVE Outside(_, _)

\* the square of the length of v, exactly
SquaredLength(v) == v[1] * v[1] + v[2] * v[2] + v[3] * v[3]

\* the point is strictly inside the object
Inside(object, point) ==
    LET p == TransformPoint(object.mInverseTransform, point)
        objects == object.mObjectList
    IN  CASE object.kind = "sphere" ->
                 SquaredLength(VSub(p, object.mCenter)) < object.mRadius * object.mRadius
          [] object.kind = "plane" ->
                 object.mNormal[1] * p[1] + object.mNormal[2] * p[2] + object.mNormal[3] * p[3]
                     < object.mHeight * Scale
          [] object.kind = "cube" -> \A i \in 1..3 : AbsF(p[i]) < object.mSize[i]
          [] object.kind = "union" -> \E i \in DOMAIN objects : Inside(objects[i], p)
          [] object.kind = "intersection" -> \A i \in DOMAIN objects : Inside(objects[i], p)
          [] object.kind = "difference" ->
                 /\ Inside(objects[1], p)
                 /\ \A i \in DOMAIN objects : i > 1 => Outside(objects[i], p)

\* the point is strictly outside the object
Outside(object, point) ==
    LET p == TransformPoint(object.mInverseTransform, point)
        objects == object.mObjectList
    IN  CASE object.kind = "sphere" ->
                 SquaredLength(VSub(p, object.mCenter)) > object.mRadius * object.mRadius
          [] object.kind = "plane" ->
                 object.mNormal[1] * p[1] + object.mNormal[2] * p[2] + object.mNormal[3] * p[3]
                     > object.mHeight * Scale
          [] object.kind = "cube" -> \E i \in 1..3 : AbsF(p[i]) > object.mSize[i]
          [] object.kind = "union" -> \A i \in DOMAIN objects : Outside(objects[i], p)
          [] object.kind = "intersection" -> \E i \in DOMAIN objects : Outside(objects[i], p)
          [] object.kind = "difference" ->
                 \/ Outside(objects[1], p)
                 \/ \E i \in DOMAIN objects : i > 1 /\ Inside(objects[i], p)

\* the call was on a sphere, plane or cube, or on a union, intersection or
\* difference of at least one object
ReturnedSolid ==
    \/ \E kind \in {"sphere", "plane", "cube"} : Returned(kind)
    \/ \E kind \in {"union", "intersection", "difference"} :
           /\ Returned(kind)
           /\ Len(calc.object.mObjectList) >= 1
           /\ \A i \in DOMAIN calc.object.mObjectList :
                  calc.object.mObjectList[i].kind \in {"sphere", "plane", "cube"}

\* the sign of the returned distance tells where the point is
SignTellsSide ==
    /\ calc.result < 0 <=> Inside(calc.object, calc.point)
    /\ calc.result > 0 <=> Outside(calc.object, calc.point)

\* C14: the distance of a sphere, plane or cube and of a union, intersection or
\* difference built from them is negative exactly at the points strictly
\* inside the object, positive exactly at those outside, zero on the surface.
C14_SignOfDistance == ReturnedSolid => SignTellsSide

\* the value of the smooth union's minValue after its first n objects
SmoothValueAfter(n) ==
    SmoothUnionFrom(SubSeq(calc.object.mObjectList, 1, n), 1,
                    TransformPoint(calc.object.mInverseTransform, calc.point),
                    calc.object.mK, skLargeNumber)

\* the hard union of the same distances
HardUnion ==
    UnionFrom(calc.object.mObjectList, 1,
              TransformPoint(calc.object.mInverseTransform, calc.point), UnionSeed)

\* the call was on a smooth union of at least one object
ReturnedSmooth == Returned("smoothunion") /\ Len(calc.object.mObjectList) >= 1

\* C15 as stated: the smooth union (k > 0) is at most the hard union of the
\* same distances, every fold is strictly below both of its operands when they
\* differ by less than k, and where some object's distance is 0 both the union
\* and the smooth union are at most 0.
C15_SmoothUnionStrictlyBelow ==
    ReturnedSmooth =>
        /\ calc.result <= HardUnion
        /\ \A n \in 2..Len(calc.object.mObjectList) :
               AbsF(SmoothValueAfter(n - 1) - ChildDistances[n]) < calc.object.mK =>
                   SmoothValueAfter(n) < min_val(SmoothValueAfter(n - 1), ChildDistances[n])
        /\ (\E i \in DOMAIN ChildDistances : ChildDistances[i] = 0) =>
               (calc.result <= 0 /\ HardUnion <= 0)

\* C15 amended: the smooth union (k > 0) is at most the hard union of the same
\* distances, every fold is at most the lesser of its operands and equal to it
\* when they differ by k or more, and where some object's distance is 0 both
\* the union and the smooth union are at most 0.
C15_SmoothUnionAtMostUnion ==
    ReturnedSmooth =>
        /\ calc.result <= HardUnion
        /\ \A n \in 2..Len(calc.object.mObjectList) :
               LET lesser == min_val(SmoothValueAfter(n - 1), ChildDistances[n])
               IN  /\ SmoothValueAfter(n) <= lesser
                   /\ AbsF(SmoothValueAfter(n - 1) - ChildDistances[n]) >= calc.object.mK =>
                          SmoothValueAfter(n) = lesser
        /\ (\E i \in DOMAIN ChildDistances : ChildDistances[i] = 0) =>
               (calc.result <= 0 /\ HardUnion <= 0)

\* C15 witness: a smooth union of two objects at distances 0 and 0.3, closer
\* than k, returns a distance below 0, the hard union of the two.
C15_Witness ==
    /\ ReturnedSmooth
    /\ Len(calc.object.mObjectList) = 2
    /\ ChildDistances[1] = 0
    /\ ChildDistances[2] = 3000
    /\ calc.object.mK = 5000
    /\ calc.result < 0

\* -------------------------------------------------------------- lights ----
CColor4f(red, green, blue) == <<red, green, blue>>

Black == CColor4f(0, 0, 0)

\* CColor4f::operator*( real32 )
ColorScale(color, rhs) == CColor4f(MulF(color[1], rhs), MulF(color[2], rhs), MulF(color[3], rhs))

\* CVector3f::AsNormalized: the vector times the reciprocal of its magnitude
AsNormalized(v) == VScale(v, DivF(Scale, Magnitude(v)))

\* the constructor normalizes the direction
CDirectionalLightObject(direction, color) ==
    [kind |-> "directional", mDirection |-> AsNormalized(direction), mColor |-> color]

\* CDirectionalLightObject::CalculateValueAtPosition
DirectionalValue(light, position, surfaceNormal) ==
    LET angle == Dot(surfaceNormal, light.mDirection)
    IN  IF angle < 0 THEN Black ELSE ColorScale(light.mColor, angle)

\* the unit vectors along the axes
AxisVectors ==
    { CVector3f(Scale, 0, 0), CVector3f(0 - Scale, 0, 0), CVector3f(0, Scale, 0),
      CVector3f(0, 0 - Scale, 0), CVector3f(0, 0, Scale), CVector3f(0, 0, 0 - Scale) }

\* the directions the lights are constructed with
LightDirections ==
    AxisVectors \cup { CVector3f(0, 0 - 2 * Scale, 0), CVector3f(0, 3 * Scale, 0),
                       CVector3f(6000, 0 - 8000, 0), CVector3f(0 - 12000, 0 - 16000, 0) }

LightColors == { CColor4f(1000, 1000, 2000), CColor4f(Scale, Scale, Scale) }

\* a surface asks a directional light for its value
InitLight ==
    /\ AtRest
    /\ calc \in { [op |-> "CalculateValueAtPosition", pc |-> "call",
                   light |-> CDirectionalLightObject(d, c), surfaceNormal |-> n,
                   result |-> Black] :
                  d \in LightDirections, c \in LightColors, n \in AxisVectors }

\* the call returns
LightReturn ==
    /\ calc.op = "CalculateValueAtPosition"
    /\ calc.pc = "call"
    /\ calc' = [calc EXCEPT !.pc = "return",
                            !.result = DirectionalValue(calc.light, Zero, calc.surfaceNormal)]
    /\ UNCHANGED schedVars

NextLight == LightReturn

SpecLight == InitLight /\ [][NextLight]_vars

\* C16: a directional light of unit direction d and colour c gives a surface
\* of normal n the colour c * (n . (-d)) when n . (-d) > 0 and black otherwise.
C16_DirectionalLightFacesSurface ==
    (calc.op = "CalculateValueAtPosition" /\ calc.pc = "return") =>
        LET angle == Dot(calc.surfaceNormal, VNeg(calc.light.mDirection))
        IN  calc.result = IF angle > 0 THEN ColorScale(calc.light.mColor, angle) ELSE Black

-----------------------------------------------------------------------------
\* Shading one pixel: DoIntersection and CalculateSurfaceColor.  The march of
\* a ray is an input here: it misses, hits where no object is closest, or
\* hits an object with a surface.

skBackgroundColor == CColor4f(2000, 3000, 4000)

White == CColor4f(Scale, Scale, Scale)

ColorAdd(lhs, rhs) == CColor4f(lhs[1] + rhs[1], lhs[2] + rhs[2], lhs[3] + rhs[3])

ColorMul(lhs, rhs) ==
    CColor4f(MulF(lhs[1], rhs[1]), MulF(lhs[2], rhs[2]), MulF(lhs[3], rhs[3]))

\* gkEpsilon * 10 is 0.012 units of the fixed point: only 0 is below it
small_enough(value) == AbsF(value) < 1

\* the depth DoIntersection( x, y ) gives the primary ray
PrimaryDepth == 4

SSurfaceInfo(albedo, metallic, dielectric) ==
    [albedo |-> albedo, metallic |-> metallic, dielectric |-> dielectric]

\* what a hit object gives the shading: its colour at the point and its surface
Surfaces ==
    { [color |-> White, info |-> SSurfaceInfo(Scale, 0, 0)],
      [color |-> CColor4f(5000, 0, 0), info |-> SSurfaceInfo(Scale, 5000, 0)],
      [color |-> CColor4f(0, 5000, 0), info |-> SSurfaceInfo(5000, 0, 2000)] }

\* no object: a pointer is the sequence of what it points to
nullptr == <<>>

\* what MarchRay and GetClosestObject give DoIntersection
MarchResults ==
    { [mHit |-> FALSE, pRenderObject |-> nullptr],
      [mHit |-> TRUE, pRenderObject |-> nullptr] }
    \cup { [mHit |-> TRUE, pRenderObject |-> <<s>>] : s \in Surfaces }

\* a light as the shading sees it: its value at the surface, and whether it
\* casts a shadow
SceneLight(value, castsShadow) == [value |-> value, castsShadow |-> castsShadow]

LightLists ==
    { <<>>,
      <<SceneLight(CColor4f(1000, 1000, 1000), FALSE)>>,
      <<SceneLight(CColor4f(1000, 1000, 1000), FALSE),
        SceneLight(CColor4f(9000, 9000, 8000), TRUE)>> }

\* what MarchShadowRay returns: 0 in shadow, up to 1 in the light
Shadows == {0, 5000, Scale}

Reflective(surfaceInfo) ==
    ~small_enough(surfaceInfo.dielectric) \/ ~small_enough(surfaceInfo.metallic)

\* the mutation of the colour of a ray that hits nothing
MissColorBlack == Black

\* the colour of a ray that hits nothing
MissColor == skBackgroundColor

\* the mutation of the depth of a reflection: the depth of the caller
ReflectionDepthSame(depth) == depth

\* the depth of a reflection
ReflectionDepth(depth) == depth - 1

\* the reflected colour's share of the surface colour
ReflectedPart(surface, reflectedColor) ==
    ColorAdd(ColorScale(ColorMul(reflectedColor, surface.color), surface.info.metallic),
             ColorScale(reflectedColor, surface.info.dielectric))

\* one light's share, with the shadow its ray returned
LightPart(surface, light, shadow) ==
    IF light.castsShadow
    THEN IF shadow > 0
         THEN ColorScale(ColorMul(light.value, surface.color),
                         MulF(shadow, surface.info.albedo))
         ELSE Black
    ELSE ColorMul(light.value, ColorScale(surface.color, surface.info.albedo))

RECURSIVE LightsFrom(_, _, _, _, _)
\* the loop over the lights, from light i on
LightsFrom(surface, lights, shadows, i, color) ==
    IF i > Len(lights) THEN color
    ELSE LightsFrom(surface, lights, shadows, i + 1,
                    ColorAdd(color, LightPart(surface, lights[i], shadows[i])))

InitShade ==
    /\ AtRest
    /\ calc \in { [op |-> "DoIntersection", pc |-> "pixel", lights |-> l,
                   depth |-> 0, stack |-> <<>>, surface |-> nullptr,
                   color |-> Black, marches |-> 0, primary |-> "none",
                   last |-> "none", result |-> Black] : l \in LightLists }

\* DoIntersection( x, y ) calls DoIntersection( ray, 4 )
DoIntersectionPixel ==
    /\ calc.op = "DoIntersection"
    /\ calc.pc = "pixel"
    /\ calc' = [calc EXCEPT !.pc = "enter", !.depth = PrimaryDepth, !.last = "pixel"]
    /\ UNCHANGED schedVars

\* DoIntersection( ray, 0 ) returns black
DoIntersectionDepthZero ==
    /\ calc.op = "DoIntersection"
    /\ calc.pc = "enter"
    /\ calc.depth = 0
    /\ calc' = [calc EXCEPT !.pc = "return", !.color = Black, !.last = "zero"]
    /\ UNCHANGED schedVars

\* DoIntersection( ray, depth ) marches the ray; a ray that hits nothing, or
\* hits where no object is closest, returns the background colour
DoIntersectionMarch ==
    /\ calc.op = "DoIntersection"
    /\ calc.pc = "enter"
    /\ calc.depth # 0
    /\ \E result \in MarchResults :
         LET object == result.mHit /\ result.pRenderObject # nullptr
             first == IF calc.stack = <<>>
                      THEN IF ~result.mHit THEN "miss"
                           ELSE IF object THEN "hit" ELSE "no object"
                      ELSE calc.primary
         IN  calc' = IF object
                     THEN [calc EXCEPT !.pc = "surface", !.surface = result.pRenderObject,
                                       !.marches = @ + 1, !.primary = first,
                                       !.last = "march"]
                     ELSE [calc EXCEPT !.pc = "return", !.color = MissColor,
                                       !.marches = @ + 1, !.primary = first,
                                       !.last = "march"]
    /\ UNCHANGED schedVars

\* CalculateSurfaceColor, on a reflective surface: the reflected ray
CalculateSurfaceColorReflect ==
    /\ calc.op = "DoIntersection"
    /\ calc.pc = "surface"
    /\ Reflective(calc.surface[1].info)
    /\ calc' = [calc EXCEPT !.pc = "enter",
                            !.stack = Append(@, [surface |-> calc.surface,
                                                 depth |-> calc.depth]),
                            !.depth = ReflectionDepth(@),
                            !.surface = nullptr, !.last = "reflect"]
    /\ UNCHANGED schedVars

\* CalculateSurfaceColor, from the lights on: a surface that reflects has its
\* reflected colour, another starts from black
CalculateSurfaceColorLights ==
    /\ calc.op = "DoIntersection"
    /\ \/ calc.pc = "surface" /\ ~Reflective(calc.surface[1].info)
       \/ calc.pc = "reflected"
    /\ \E shadows \in [1..Len(calc.lights) -> Shadows] :
         LET start == IF calc.pc = "reflected"
                      THEN ReflectedPart(calc.surface[1], calc.color)
                      ELSE Black
         IN  calc' = [calc EXCEPT !.pc = "return",
                                  !.color = LightsFrom(calc.surface[1], calc.lights,
                                                       shadows, 1, start),
                                  !.surface = nullptr, !.last = "lights"]
    /\ UNCHANGED schedVars

\* DoIntersection returns: to the surface that cast the ray, or to the pixel
DoIntersectionReturn ==
    /\ calc.op = "DoIntersection"
    /\ calc.pc = "return"
    /\ calc' = IF calc.stack = <<>>
               THEN [calc EXCEPT !.pc = "done", !.result = calc.color, !.last = "return"]
               ELSE [calc EXCEPT !.pc = "reflected",
                                 !.surface = calc.stack[Len(calc.stack)].surface,
                                 !.stack = SubSeq(@, 1, Len(@) - 1),
                                 !.depth = calc.stack[Len(calc.stack)].depth,
                                 !.last = "return"]
    /\ UNCHANGED schedVars

NextShade ==
    \/ DoIntersectionPixel
    \/ DoIntersectionDepthZero
    \/ DoIntersectionMarch
    \/ CalculateSurfaceColorReflect
    \/ CalculateSurfaceColorLights
    \/ DoIntersectionReturn

SpecShade == InitShade /\ [][NextShade]_vars

\* C17: DoIntersection for a pixel returns skBackgroundColor whenever the
\* primary march reports a miss, whatever the lights and the surfaces of the
\* scene are, and also when the primary march reports a hit where no object
\* is closest.
C17_MissGivesBackground ==
    (calc.op = "DoIntersection" /\ calc.pc = "done"
       /\ calc.primary \in {"miss", "no object"})
    => calc.result = skBackgroundColor

\* a pixel of a scene with two lights whose primary ray missed
C17_Witness ==
    /\ calc.op = "DoIntersection"
    /\ calc.pc = "done"
    /\ calc.primary = "miss"
    /\ Len(calc.lights) = 2
    /\ calc.marches = 1

\* C19: shading a pixel starts DoIntersection at depth 4 and each reflection
\* recurses with depth - 1; a call at depth 0 returns black without marching;
\* a surface whose metallic and dielectric are both 0 casts no reflection
\* ray; so a pixel performs at most 4 primary and reflection marches.
C19_DepthBoundsMarches ==
    calc.op = "DoIntersection" =>
        /\ calc.marches <= 4
        /\ calc.pc \in {"enter", "surface"} =>
             /\ calc.depth = 4 - Len(calc.stack)
             /\ calc.marches = Len(calc.stack) + (IF calc.pc = "surface" THEN 1 ELSE 0)
        /\ calc.last = "zero" =>
             /\ calc.color = Black
             /\ calc.marches = Len(calc.stack)
        /\ \A i \in 1..Len(calc.stack) :
             LET info == calc.stack[i].surface[1].info
             IN  info.metallic # 0 \/ info.dielectric # 0

\* a pixel whose ray was reflected three times and reached depth 0
C19_Witness ==
    /\ calc.op = "DoIntersection"
    /\ calc.pc = "done"
    /\ calc.marches = 4
    /\ calc.primary = "hit"

-----------------------------------------------------------------------------
\* Marching a ray: MarchRay for the primary and the reflected rays,
\* MarchShadowRay for the rays to the lights.  The scene is one whose distance
\* is the same all along the ray, as for a ray parallel to a plane.

\* 60.f
skMaxLength == 600000

\* 0.0001f
skMinLength == 1

\* the count after which MarchRay reports a hit
MaxCount == 200

\* the penumbra CalculateSurfaceColor passes: 24.f
Penumbra == 24 * Scale

\* the distances of the scenes, from 0.002 inside an object to 70.0 outside
RayDistances == {0 - 20, 0 - 1, 0, 1, 3000, 100000, 700000}

\* the distances of the scenes whose shadow rays are marched
ShadowDistances == {0, 100, 3000, 300000}

\* the distances from a surface to a light: 5.0, 20.0 and 100.0
LightDistances == {5 * Scale, 20 * Scale, 100 * Scale}

GetMinDistanceAtPoint(scene, time) == scene

InitMarch ==
    /\ AtRest
    /\ calc \in
         { [op |-> "MarchRay", pc |-> "loop", scene |-> d, maxLength |-> skMaxLength,
            time |-> skMinLength, count |-> 0, shadow |-> Scale,
            steps |-> 0, far |-> 0, mHit |-> FALSE, result |-> 0] :
           d \in RayDistances }
         \cup
         { [op |-> "MarchShadowRay", pc |-> "loop", scene |-> d, maxLength |-> l,
            time |-> 0, count |-> 0, shadow |-> Scale,
            steps |-> 0, far |-> 0, mHit |-> FALSE, result |-> 0] :
           d \in ShadowDistances, l \in LightDistances }

\* one turn of MarchRay's loop
MarchRayStep ==
    /\ calc.op = "MarchRay"
    /\ calc.pc = "loop"
    /\ calc.time < calc.maxLength
    /\ LET distanceToNearestObject == GetMinDistanceAtPoint(calc.scene, calc.time)
           sampled == [calc EXCEPT !.steps = @ + 1,
                                   !.far = max_val(@, calc.time)]
       IN  calc' = IF AbsF(distanceToNearestObject) < skMinLength \/ calc.count > MaxCount
                   THEN [sampled EXCEPT !.pc = "return", !.mHit = TRUE,
                                        !.count = @ + 1, !.result = calc.time]
                   ELSE [sampled EXCEPT !.count = @ + 1,
                                        !.time = @ + distanceToNearestObject]
    /\ UNCHANGED schedVars

\* MarchRay's loop ends: no hit
MarchRayEnd ==
    /\ calc.op = "MarchRay"
    /\ calc.pc = "loop"
    /\ ~(calc.time < calc.maxLength)
    /\ calc' = [calc EXCEPT !.pc = "return", !.mHit = FALSE]
    /\ UNCHANGED schedVars

\* one turn of MarchShadowRay's loop; at time 0 the quotient is infinite and
\* the shadow keeps its value
MarchShadowRayStep ==
    /\ calc.op = "MarchShadowRay"
    /\ calc.pc = "loop"
    /\ calc.time < calc.maxLength
    /\ LET distanceToNearestObject == GetMinDistanceAtPoint(calc.scene, calc.time)
           sampled == [calc EXCEPT !.steps = @ + 1,
                                   !.far = max_val(@, calc.time)]
       IN  calc' = IF distanceToNearestObject < skMinLength
                   THEN [sampled EXCEPT !.pc = "return", !.result = 0]
                   ELSE [sampled EXCEPT
                           !.shadow = IF calc.time = 0 THEN @
                                      ELSE min_val(@, DivF(MulF(Penumbra,
                                                                distanceToNearestObject),
                                                           calc.time)),
                           !.time = @ + distanceToNearestObject]
    /\ UNCHANGED schedVars

\* MarchShadowRay's loop ends: the shadow is returned
MarchShadowRayEnd ==
    /\ calc.op = "MarchShadowRay"
    /\ calc.pc = "loop"
    /\ ~(calc.time < calc.maxLength)
    /\ calc' = [calc EXCEPT !.pc = "return", !.result = calc.shadow]
    /\ UNCHANGED schedVars

NextMarch ==
    \/ MarchRayStep
    \/ MarchRayEnd
    \/ MarchShadowRayStep
    \/ MarchShadowRayEnd

SpecMarch == InitMarch /\ [][NextMarch]_vars

\* C18: every ray the tracer casts, primary, reflection or shadow, ends after
\* travelling at most skMaxLength = 60 along the ray and after at most 200
\* march steps plus a constant.
C18_RaysAreBounded ==
    calc.op \in {"MarchRay", "MarchShadowRay"} =>
        /\ calc.far <= skMaxLength
        /\ calc.steps <= MaxCount + 2

-----------------------------------------------------------------------------
\* Transforms of render objects and materials.  A transform is its twelve
\* entries as integers over a common denominator, so that products and
\* inverses are exact.  An assigned transform has its entries in hundredths.

Hundredths == 100

\* a transform from its rows, entries in hundredths
CTransform4f(a00, a01, a02, a03, a10, a11, a12, a13, a20, a21, a22, a23) ==
    [m |-> <<a00, a01, a02, a03, a10, a11, a12, a13, a20, a21, a22, a23>>,
     den |-> Hundredths]

Identity ==
    CTransform4f(Hundredths, 0, 0, 0,  0, Hundredths, 0, 0,  0, 0, Hundredths, 0)

\* entry of row i and column j, both from 0
Entry(t, i, j) == t.m[4 * i + j + 1]

\* the determinant of an assigned transform, in millionths
GetDeterminant(t) ==
    Entry(t, 0, 0) * (Entry(t, 1, 1) * Entry(t, 2, 2) - Entry(t, 1, 2) * Entry(t, 2, 1))
    + Entry(t, 0, 1) * (Entry(t, 1, 2) * Entry(t, 2, 0) - Entry(t, 1, 0) * Entry(t, 2, 2))
    + Entry(t, 0, 2) * (Entry(t, 1, 0) * Entry(t, 2, 1) - Entry(t, 1, 1) * Entry(t, 2, 0))

\* 0.00001f, in millionths
DeterminantEpsilon == 10

\* fabsf( determinant ) < 0.00001f
TooSmall(determinant) == AbsF(determinant) < DeterminantEpsilon

\* the inverse of an assigned transform: its entries are over the determinant
GetInverse(t) ==
    LET determinant == GetDeterminant(t)
        m00 == Entry(t, 0, 0)  m01 == Entry(t, 0, 1)  m02 == Entry(t, 0, 2)
        m03 == Entry(t, 0, 3)
        m10 == Entry(t, 1, 0)  m11 == Entry(t, 1, 1)  m12 == Entry(t, 1, 2)
        m13 == Entry(t, 1, 3)
        m20 == Entry(t, 2, 0)  m21 == Entry(t, 2, 1)  m22 == Entry(t, 2, 2)
        m23 == Entry(t, 2, 3)
        t03 == 0 - ((m12 * m23 - m13 * m22) * m01 - (m02 * m23 - m03 * m22) * m11
                    + (m02 * m13 - m03 * m12) * m21)
        t13 == (m12 * m23 - m13 * m22) * m00 - (m02 * m23 - m03 * m22) * m10
               + (m02 * m13 - m03 * m12) * m20
        t23 == 0 - ((m10 * m21 - m11 * m20) * m03 - (m00 * m21 - m01 * m20) * m13
                    + (m00 * m11 - m01 * m10) * m23)
    IN  IF TooSmall(determinant) THEN Identity
        ELSE [m |-> << (m11 * m22 - m12 * m21) * Hundredths,
                       (m02 * m21 - m01 * m22) * Hundredths,
                       (m01 * m12 - m02 * m11) * Hundredths, t03,
                       (m12 * m20 - m10 * m22) * Hundredths,
                       (m00 * m22 - m02 * m20) * Hundredths,
                       (m02 * m10 - m00 * m12) * Hundredths, t13,
                       (m10 * m21 - m11 * m20) * Hundredths,
                       (m01 * m20 - m00 * m21) * Hundredths,
                       (m00 * m11 - m01 * m10) * Hundredths, t23 >>,
              den |-> determinant]

\* lhs * rhs: the entries are over the product of the denominators
TransformProduct(lhs, rhs) ==
    [m |-> [n \in 1..12 |->
              LET i == (n - 1) \div 4
                  j == (n - 1) % 4
              IN  Entry(lhs, i, 0) * Entry(rhs, 0, j) + Entry(lhs, i, 1) * Entry(rhs, 1, j)
                  + Entry(lhs, i, 2) * Entry(rhs, 2, j)
                  + (IF j = 3 THEN Entry(lhs, i, 3) * rhs.den ELSE 0)],
     den |-> lhs.den * rhs.den]

\* translate( x, y, z ) * rotatez( 0 or 90 ) * scale( s ), in hundredths
Placed(x, y, z, quarter, s) ==
    IF quarter
    THEN CTransform4f(0, 0 - s, 0, x,  s, 0, 0, y,  0, 0, s, z)
    ELSE CTransform4f(s, 0, 0, x,  0, s, 0, y,  0, 0, s, z)

\* the scales of the assigned transforms: 0, 0.01, 0.02, 0.03, 0.5, 1 and 2
Scales == {0, 1, 2, 3, 50, 100, 200}

Transforms ==
    { Placed(x, 0 - 2 * x, 3 * x, quarter, s) :
        x \in {0, 100}, quarter \in BOOLEAN, s \in Scales }

\* a render object or a material, as constructed
Transformed == [mTransform |-> Identity, mInverseTransform |-> Identity]

SetTransform(object, transform) ==
    [mTransform |-> transform, mInverseTransform |-> GetInverse(transform)]

GetTransform(object) == object.mTransform

GetInverseTransform(object) == object.mInverseTransform

InitTransform ==
    /\ AtRest
    /\ calc = [op |-> "SetTransform", object |-> Transformed, material |-> Transformed,
               assigned |-> [object |-> Identity, material |-> Identity],
               calls |-> [object |-> 0, material |-> 0]]

\* the most calls of SetTransform on one object the model counts
MaxAssigned == 2

Counted(n) == IF n < MaxAssigned THEN n + 1 ELSE n

\* CRenderObject::SetTransform
RenderObjectSetTransform ==
    /\ calc.op = "SetTransform"
    /\ \E transform \in Transforms :
         calc' = [calc EXCEPT !.object = SetTransform(@, transform),
                              !.assigned.object = transform,
                              !.calls.object = Counted(@)]
    /\ UNCHANGED schedVars

\* CMaterialObject::SetTransform
MaterialSetTransform ==
    /\ calc.op = "SetTransform"
    /\ \E transform \in Transforms :
         calc' = [calc EXCEPT !.material = SetTransform(@, transform),
                              !.assigned.material = transform,
                              !.calls.material = Counted(@)]
    /\ UNCHANGED schedVars

NextTransform ==
    \/ RenderObjectSetTransform
    \/ MaterialSetTransform

SpecTransform == InitTransform /\ [][NextTransform]_vars

\* lhs * rhs is the identity within 0.00001
IdentityWithin(product) ==
    \A n \in 1..12 :
        LET one == IF n \in {1, 6, 11} THEN product.den ELSE 0
        IN  AbsF(product.m[n] - one) <= AbsF(product.den) \div 100000

\* the transform and the inverse an object caches are those of its last
\* SetTransform, and their product is the identity
Cached(object, assigned, assignments) ==
    /\ GetTransform(object) = assigned
    /\ assignments > 0 => GetInverseTransform(object) = GetInverse(assigned)
    /\ IdentityWithin(TransformProduct(GetInverseTransform(object), GetTransform(object)))

\* C20: after any sequence of SetTransform calls on a render object or a
\* material, GetTransform returns the last matrix assigned, the cached inverse
\* is the inverse recomputed from it, and the cached inverse times the matrix
\* is the identity within 1e-5, whatever the determinant of the matrix.
C20_InverseIsCached ==
    calc.op = "SetTransform" =>
        /\ Cached(calc.object, calc.assigned.object, calc.calls.object)
        /\ Cached(calc.material, calc.assigned.material, calc.calls.material)

-----------------------------------------------------------------------------
\* The tile layout of RenderScene as a function of the buffer's size and of
\* hardware_concurrency().

\* the sizes of the buffers: every small one, and the default window's
LayoutSizes ==
    ((1..MaxSide) \X (1..MaxSide)) \cup {<<skDefaultWidth, skDefaultHeight>>}

InitLayout ==
    /\ AtRest
    /\ calc \in { [op |-> "RenderScene", pc |-> "call", width |-> sz[1], height |-> sz[2],
                   processors |-> n, areas |-> <<>>] :
                  sz \in LayoutSizes, n \in 0..MaxCores }

\* lines 1552-1566: the work areas are pushed
LayoutReturn ==
    /\ calc.op = "RenderScene"
    /\ calc.pc = "call"
    /\ calc' = [calc EXCEPT !.pc = "return",
                            !.areas = WorkAreasFor(calc.width, calc.height, calc.processors)]
    /\ UNCHANGED schedVars

NextLayout == LayoutReturn

SpecLayout == InitLayout /\ [][NextLayout]_vars

\* the work areas that hold pixel (x, y)
AreasHolding(areas, x, y) ==
    { i \in 1..Len(areas) : /\ areas[i].mMinX <= x /\ x < areas[i].mMaxX
                            /\ areas[i].mMinY <= y /\ y < areas[i].mMaxY }

\* C21: for every buffer of W x H pixels, W, H >= 1, and every job count, the
\* work areas RenderScene creates partition the buffer: each has
\* 0 <= min_x < max_x <= W and 0 <= min_y < max_y <= H, and every pixel of the
\* buffer lies in exactly one of them.
C21_TilesPartitionBuffer ==
    (calc.op = "RenderScene" /\ calc.pc = "return") =>
        /\ \A i \in 1..Len(calc.areas) :
               LET a == calc.areas[i]
               IN  /\ 0 <= a.mMinX /\ a.mMinX < a.mMaxX /\ a.mMaxX <= calc.width
                   /\ 0 <= a.mMinY /\ a.mMinY < a.mMaxY /\ a.mMaxY <= calc.height
        /\ \A x \in 0..(calc.width - 1) : \A y \in 0..(calc.height - 1) :
               Cardinality(AreasHolding(calc.areas, x, y)) = 1

\* a buffer whose last row and last column of work areas are clipped
C21_Witness ==
    /\ calc.op = "RenderScene"
    /\ calc.pc = "return"
    /\ calc.width = 5 /\ calc.height = 5
    /\ Len(calc.areas) = 9
    /\ calc.areas[9] = SWorkArea(4, 4, 5, 5)

\* ceil( n / d )
CeilDiv(n, d) == (n + d - 1) \div d

\* C22: with e = max(1, floor(sqrt(hardware_concurrency * multiplier))),
\* hStep = max(1, W div e) and vStep = max(1, H div e), RenderScene creates
\* ceil(W / hStep) * ceil(H / vStep) work areas, which is e * e when W and H
\* are positive multiples of e: 16 for 4 cores, multiplier 5 and 640 x 480.
C22_TileCount ==
    (calc.op = "RenderScene" /\ calc.pc = "return") =>
        LET e == max_val(1, FloorSqrt(calc.processors * skJobCoreMultiplier))
            hStep == max_val(1, calc.width \div e)
            vStep == max_val(1, calc.height \div e)
        IN  /\ Len(calc.areas) = CeilDiv(calc.width, hStep) * CeilDiv(calc.height, vStep)
            /\ (calc.width % e = 0 /\ calc.height % e = 0) => Len(calc.areas) = e * e
            /\ (calc.processors = 4 /\ calc.width = 640 /\ calc.height = 480)
                   => Len(calc.areas) = 16

\* the default window on 4 cores: 16 work areas
C22_Witness ==
    /\ calc.op = "RenderScene"
    /\ calc.pc = "return"
    /\ calc.processors = 4
    /\ calc.width = skDefaultWidth /\ calc.height = skDefaultHeight
    /\ Len(calc.areas) = 16

-----------------------------------------------------------------------------
\* The scheduler again: who sets mJobDone, and under which lock.

\* a step that keeps the list of work areas and sets the mJobDone of area i
SetsDone(i) ==
    /\ dpc # "RenderSceneFill"
    /\ i \in 1..Len(mWorkAreas)
    /\ ~mWorkAreas[i].mJobDone
    /\ mWorkAreas'[i].mJobDone

\* C23: the mJobDone of a work area is set once and by one party:
\* NextWorkArea hands an area to at most one worker, that worker alone sets
\* its flag, Cancel sets the flags of the areas never handed out and of no
\* other; no area is both rendered by a worker and skipped by Cancel, and a
\* flag does not go back to false while its area is in the list.
C23_DoneHasOneWriter ==
    [][ /\ \A i \in 1..Len(mWorkAreas) :
               /\ SetsDone(i) =>
                      \/ /\ taker[i] = "worker"
                         /\ \E t \in HeldBy(i) :
                                /\ t.pc = "finish"
                                /\ HeldBy(i) = {t}
                                /\ CopiesIn(t, workers) = 1
                                /\ CopiesIn(t, workers') = 0
                         /\ UNCHANGED <<taker, dpc>>
                      \/ /\ taker[i] = "none"
                         /\ taker'[i] = "cancel"
                         /\ HeldBy(i) = {}
                         /\ dpc' = "CancelWait"
                         /\ UNCHANGED workers
               /\ (mWorkAreas[i].mJobDone /\ dpc # "RenderSceneFill") =>
                      /\ Len(mWorkAreas') = Len(mWorkAreas)
                      /\ mWorkAreas'[i].mJobDone
                      /\ taker'[i] = taker[i]
               /\ (taker[i] # "none" /\ dpc # "RenderSceneFill") => taker'[i] = taker[i]
               /\ (taker[i] = "none" /\ taker'[i] = "worker" /\ dpc # "RenderSceneFill") =>
                      /\ i = mCurrentWorkArea + 1
                      /\ HeldBy(i) = {}
                      /\ ~mWorkAreas[i].mJobDone
        /\ (dpc' = "CancelWait" /\ dpc # "CancelWait") =>
               \A i \in 1..Len(mWorkAreas) :
                   mWorkAreas'[i].mJobDone = (mWorkAreas[i].mJobDone \/ taker[i] = "none")
      ]_vars

\* a Cancel has returned from a frame of which a worker rendered one area and
\* Cancel skipped another
C23_Witness ==
    /\ lastCall = "Cancel"
    /\ dpc = "idle"
    /\ IsDone
    /\ \E i \in 1..Len(taker) : taker[i] = "worker" /\ mWorkAreas[i].mJobDone
    /\ \E i \in 1..Len(taker) : taker[i] = "cancel" /\ mWorkAreas[i].mJobDone

\* the work areas without their flags
Layout(areas) == [i \in 1..Len(areas) |-> [areas[i] EXCEPT !.mJobDone = FALSE]]

\* a step in which a worker returns from NextWorkArea with an area
Pops == \E t \in Running :
            /\ t.pc = "next"
            /\ CopiesIn(t, workers') < CopiesIn(t, workers)
            /\ mCurrentWorkArea' = mCurrentWorkArea + 1

CursorInList == 0 <= mCurrentWorkArea /\ mCurrentWorkArea <= Len(mWorkAreas)

\* C24: the list of work areas and the cursor change only in the sections
\* that hold mJobMutex: RenderScene's clear and refill, Cancel's loop and a
\* worker's pop in NextWorkArea; a worker's pop finds the whole list of the
\* frame, never a part of it; and from the first RenderScene on
\* 0 <= cursor <= number of work areas.
C24_ListChangesUnderLock ==
    [][ /\ (Layout(mWorkAreas') # Layout(mWorkAreas) \/ mCurrentWorkArea' # mCurrentWorkArea)
               => \/ Leaves("RenderSceneFill")
                  \/ dpc # "CancelWait" /\ dpc' = "CancelWait"
                  \/ Pops
        /\ Pops =>
               /\ Layout(mWorkAreas) = WorkAreasFor(mBufferWidth, mBufferHeight, numProcessors)
               /\ mWorkAreas' = mWorkAreas
               /\ \E t \in BagToSet(workers') : t.pc = "render" /\ t.area = mCurrentWorkArea'
                                      /\ CopiesIn(t, workers') = 1
        /\ Leaves("RenderSceneFill") => CursorInList'
        /\ CursorInList => CursorInList'
      ]_vars

\* a worker has popped the first of several work areas of a frame
C24_Witness ==
    /\ dpc = "idle"
    /\ lastCall = "RenderScene"
    /\ Len(mWorkAreas) > 1
    /\ mCurrentWorkArea = 1
    /\ \E t \in Running : t.pc = "render" /\ t.area = 1

-----------------------------------------------------------------------------
\* The driver loop of WndProc: WM_PAINT, which asks for a new frame when the
\* last one is done, and WM_SIZE.  calc counts the frames WM_PAINT has asked
\* RenderScene for with IsDone true, and keeps the scene time of the last two.

InitLoop ==
    /\ Constructed(skInitialStepSize)
    /\ calc = [op |-> "WndProc", frames |-> 0, time |-> NoTime, before |-> NoTime]

\* WM_PAINT, lines 1759-1808: gBitmapBuffer is there once WM_SIZE has resized
\* the buffer; the conversion and the blit change nothing of the renderer;
\* then if (pRenderer->IsDone())
PaintTick ==
    /\ dpc = "idle"
    /\ mBufferWidth # 0
    /\ dpc' = IF IsDone THEN "PaintUpdate" ELSE "idle"
    /\ lastCall' = "Paint"
    /\ UNCHANGED <<calc, numProcessors, stepSize, progVars, workers, dW, dH, dRet,
                   writes, taker, builds, frameScene>>

\* line 1810: pRenderer->Update( 0.1f ), its guard
PaintUpdate ==
    /\ dpc = "PaintUpdate"
    /\ dpc' = IF UpdateGuard THEN "PaintUpdateBody" ELSE "PaintRenderScene"
    /\ UNCHANGED <<calc, numProcessors, stepSize, progVars, workers, dW, dH, dRet, histVars>>

\* a WM_PAINT that goes on to RenderScene without the body of Update
PaintUpdateSkipped ==
    /\ dpc = "PaintUpdateBody"
    /\ dpc' = "PaintRenderScene"
    /\ UNCHANGED <<calc, numProcessors, stepSize, progVars, workers, dW, dH, dRet, histVars>>

\* lines 1479-1482, called from line 1810
PaintUpdateBody ==
    /\ dpc = "PaintUpdateBody"
    /\ mTime' = mTime + DeltaTime
    /\ mScene' = UpdatedScene(mScene, mTime', mBufferWidth, mBufferHeight)
    /\ builds' = builds + 1
    /\ dpc' = "PaintRenderScene"
    /\ UNCHANGED <<calc, numProcessors, stepSize, mBufferWidth, mBufferHeight, mBuffer,
                   mWorkAreas, mCurrentWorkArea, mShutdown, workers, dW, dH, dRet,
                   writes, taker, calls, lastCall, lastDone, frameScene>>

\* line 1811: pRenderer->RenderScene(), its guard
PaintRenderScene ==
    /\ dpc = "PaintRenderScene"
    /\ dpc' = IF RenderSceneGuard THEN "RenderSceneFill" ELSE "idle"
    /\ calc' = IF RenderSceneGuard
               THEN [calc EXCEPT !.frames = @ + 1, !.time = mScene.time,
                                 !.before = calc.time]
               ELSE calc
    /\ UNCHANGED <<numProcessors, stepSize, progVars, workers, dW, dH, dRet, histVars>>

\* the messages WndProc handles
LoopCall ==
    /\ calls < MaxMessages
    /\ calls' = calls + 1
    /\ lastDone' = IsDone
    /\ \/ PaintTick
       \/ WmSize

LoopContinue ==
    \/ PaintUpdate
    \/ PaintUpdateBody
    \/ PaintRenderScene
    \/ RenderSceneFill
    \/ RenderSceneNotify
    \/ CancelWait
    \/ WmSizeResize
    \/ ResizeBufferBody

NextLoop ==
    \/ LoopCall
    \/ LoopContinue
    \/ \E t \in Running : WorkerStep(t)
    \/ \E t \in Running : WorkerSpuriousWake(t)

SpecLoop == InitLoop /\ [][NextLoop]_vars

C27_SceneSizeIsBufferSize ==
    \A t \in Running :
        t.pc = "render" =>
            /\ mScene.width = mBufferWidth
            /\ mScene.height = mBufferHeight

\* a worker renders a frame that was started after an Update, in a buffer
\* that is not of the default size
C27_Witness ==
    /\ \E t \in Running : t.pc = "render"
    /\ builds > 0
    /\ mScene.time = mTime
    /\ mScene.width = mBufferWidth
    /\ mScene.width # skDefaultWidth
    /\ frameScene = mScene

-----------------------------------------------------------------------------
\* One frame in a buffer large enough for work areas of several rows and
\* columns: the driver calls ResizeBuffer and then RenderScene, and the
\* workers render.

\* the sizes of the buffer: work areas of 2 x 2 pixels on one processor for
\* the first, on two for the second
FrameSizes == {<<4, 4>>, <<6, 6>>}

\* pRenderer->ResizeBuffer( w, h ) on the new renderer: nothing to cancel
FrameResize ==
    /\ dpc = "idle"
    /\ calls = 0
    /\ calls' = 1
    /\ lastDone' = IsDone
    /\ lastCall' = "ResizeBuffer"
    /\ dpc' = "ResizeBufferBody"
    /\ \E sz \in FrameSizes : dW' = sz[1] /\ dH' = sz[2]
    /\ UNCHANGED <<calc, numProcessors, stepSize, progVars, workers, dRet,
                   writes, taker, builds, frameScene>>

\* pRenderer->RenderScene() once the buffer is there
FrameRender ==
    /\ calls = 1
    /\ calls' = 2
    /\ lastDone' = IsDone
    /\ RenderSceneCall

NextFrame ==
    \/ FrameResize
    \/ ResizeBufferBody
    \/ FrameRender
    \/ RenderSceneFill
    \/ RenderSceneNotify
    \/ \E t \in Running : WorkerStep(t)
    \/ \E t \in Running : WorkerSpuriousWake(t)

SpecFrame == Init /\ [][NextFrame]_vars

\* pixel p comes before pixel q in the raster order
RasterBefore(p, q) == p[2] < q[2] \/ (p[2] = q[2] /\ p[1] < q[1])

\* thread t takes the step
Moves(t) == CopiesIn(t, workers') < CopiesIn(t, workers)

\* C26: within a work area the worker writes the pixels in raster order,
\* (x, y) before (x', y') whenever y < y', or y = y' and x < x', and sets
\* mJobDone after the last pixel of the area; pixels of different areas are
\* written in no particular order.
C26_RasterOrderInTile ==
    [][ \A t \in Running :
            /\ (t.pc = "render" /\ Moves(t)) =>
                   \A p \in AreaPixels(mWorkAreas[t.area]) :
                       /\ writes[p] = IF RasterBefore(p, <<t.x, t.y>>) THEN 1 ELSE 0
                       /\ writes'[p] = IF RasterBefore(p, <<t.x, t.y>>) \/ p = <<t.x, t.y>>
                                       THEN 1 ELSE 0
            /\ (t.pc = "finish" /\ Moves(t)) =>
                   /\ \A p \in AreaPixels(mWorkAreas[t.area]) : writes[p] = 1
                   /\ ~mWorkAreas[t.area].mJobDone
                   /\ mWorkAreas'[t.area].mJobDone
      ]_vars

\* two workers are each in the second row of a work area of their own, and
\* the area handed out first is the one less advanced
C26_Witness ==
    \E t, u \in Running :
        /\ t.pc = "render" /\ u.pc = "render"
        /\ t.area < u.area
        /\ t.y > mWorkAreas[t.area].mMinY
        /\ u.y > mWorkAreas[u.area].mMinY
        /\ t.x = mWorkAreas[t.area].mMinX
        /\ u.x > mWorkAreas[u.area].mMinX

\* ------------------------------------------ colours of composites --------
\* CColor4f::Lerp
Lerp(lhs, rhs, t) == ColorAdd(ColorScale(lhs, Scale - t), ColorScale(rhs, t))

CColorMaterialObject(color) == [kind |-> "color", mColor |-> color]

CCheckerMaterialObject(color0, color1) ==
    [kind |-> "checker", mColor0 |-> color0, mColor1 |-> color1]

\* the virtual GetColorAtPoint of the material's class
MaterialColorAtPoint(material, point) ==
    IF material.kind = "color" THEN material.mColor
    ELSE LET sum == point[1] \div Scale + point[2] \div Scale + point[3] \div Scale
         IN  IF sum % 2 = 0 THEN material.mColor0 ELSE material.mColor1

\* CRenderObject::SetMaterial; material is the pointer, nullptr until the first call
SetMaterial(object, material) == [mMaterial |-> material] @@ object

\* CRenderObject::GetColorAtPoint; the materials keep the identity as their transform
RenderObjectColor(object, point) ==
    IF object.mMaterial # nullptr
    THEN MaterialColorAtPoint(object.mMaterial[1],
                              TransformPoint(object.mInverseTransform, point))
    ELSE White

RECURSIVE GetColorAtPoint(_, _)

\* CRenderBlend::GetColorAtPoint, mK >= 0
BlendColor(object, point) ==
    LET lowerPosition == floorf(object.mK) \div Scale
        upperPosition == lowerPosition + 1
        there == TransformPoint(object.mInverseTransform, point)
        c0 == IF lowerPosition < Len(object.mObjectList)
              THEN GetColorAtPoint(object.mObjectList[lowerPosition + 1], there)
              ELSE Black
        c1 == IF upperPosition < Len(object.mObjectList)
              THEN GetColorAtPoint(object.mObjectList[upperPosition + 1], there)
              ELSE Black
    IN  Lerp(c0, c1, object.mK - floorf(object.mK))

\* the virtual GetColorAtPoint of the object's class
GetColorAtPoint(object, point) ==
    IF object.kind = "blend" THEN BlendColor(object, point)
    ELSE RenderObjectColor(object, point)

CRenderBlend(objects, k) == CComposite("blend", objects, k)

\* the k of the blends
BlendFactors == {0, 5000, 10000, 15000, 20000}

Materials ==
    { nullptr,
      <<CColorMaterialObject(CColor4f(Scale, 0, 0))>>,
      <<CCheckerMaterialObject(CColor4f(0, Scale, 0), CColor4f(0, 0, Scale))>> }

Children ==
    { SetMaterial(o, m) :
          o \in { CRenderSphere(CVector3f(0 - 6000, 0, 0), Scale),
                  Translated(CRenderCube(CVector3f(Scale, Scale, Scale)),
                             CVector3f(6000, 0, 0)) },
          m \in Materials }

ChildLists == UNION { [1..n -> Children] : n \in 0..MaxChildren }

\* the translations given to the composites
CompositeTranslations == { Zero, CVector3f(Scale, 0, 0) }

Blends ==
    { Translated(CRenderBlend(objects, k), t) :
          objects \in ChildLists, k \in BlendFactors, t \in CompositeTranslations }

OtherComposites ==
    { Translated(CComposite(kind, objects, 0), t) :
          kind \in {"union", "intersection", "difference"}, objects \in ChildLists,
          t \in CompositeTranslations }
    \cup { Translated(CComposite("smoothunion", objects, k), t) :
               objects \in ChildLists, k \in SmoothFactors, t \in CompositeTranslations }

\* the world points the composites are asked about
WorldPoints ==
    { CVector3f(x, y, 0) : x \in {0 - 16000, 0 - 6000, 0, 6000, 16000}, y \in {0, 5000} }

\* the scene is about to ask a composite for its distance to a world point, or
\* for its colour there
InitComposite ==
    /\ AtRest
    /\ calc \in { [op |-> "GetTransformedDistanceToPoint", pc |-> "call", object |-> o,
                   point |-> p, result |-> 0] : o \in Blends \cup OtherComposites, p \in WorldPoints }
           \cup { [op |-> "GetColorAtPoint", pc |-> "call", object |-> o,
                   point |-> p, result |-> Black] : o \in Blends, p \in WorldPoints }

\* the call of GetColorAtPoint returns
ColorReturn ==
    /\ calc.op = "GetColorAtPoint"
    /\ calc.pc = "call"
    /\ calc' = [calc EXCEPT !.pc = "return",
                            !.result = GetColorAtPoint(calc.object, calc.point)]
    /\ UNCHANGED schedVars

NextComposite == DistanceReturn \/ ColorReturn

SpecComposite == InitComposite /\ [][NextComposite]_vars

\* D(j): the transformed distance of child j of the blend, the children counted from 0
ChildDistance(object, j, point) ==
    IF 0 <= j /\ j < Len(object.mObjectList)
    THEN GetTransformedDistanceToPoint(object.mObjectList[j + 1], point)
    ELSE skLargeNumber

\* the colour of child j of the blend, the children counted from 0
ChildColor(object, j, point) ==
    IF 0 <= j /\ j < Len(object.mObjectList)
    THEN GetColorAtPoint(object.mObjectList[j + 1], point)
    ELSE Black

\* C28: for k >= 0 a blend of n children without a transform of its own returns
\* the distance lerp(D(i), D(i+1), k - i) with i = floor(k), D(j) being child j's
\* transformed distance for 0 <= j < n and the large sentinel otherwise, and the
\* colour interpolated between the colours of the children i and i+1 (black for
\* an index out of range) with the same weight k - i; for an integer k < n both
\* are exactly child k's.
C28_BlendInterpolates ==
    (calc.pc = "return" /\ calc.object.kind = "blend" /\ calc.object.mInverseTransform = Zero) =>
        LET blend == calc.object
            i == blend.mK \div Scale
            weight == blend.mK - i * Scale
        IN  /\ calc.op = "GetTransformedDistanceToPoint" =>
                   /\ calc.result = ChildDistance(blend, i, calc.point)
                                    + MulF(ChildDistance(blend, i + 1, calc.point)
                                           - ChildDistance(blend, i, calc.point), weight)
                   /\ (weight = 0 /\ i < Len(blend.mObjectList)) =>
                          calc.result = GetTransformedDistanceToPoint(blend.mObjectList[i + 1],
                                                                      calc.point)
            /\ calc.op = "GetColorAtPoint" =>
                   /\ calc.result = ColorAdd(ColorScale(ChildColor(blend, i, calc.point),
                                                        Scale - weight),
                                             ColorScale(ChildColor(blend, i + 1, calc.point),
                                                        weight))
                   /\ (weight = 0 /\ i < Len(blend.mObjectList)) =>
                          calc.result = GetColorAtPoint(blend.mObjectList[i + 1], calc.point)

\* a blend of two children of different colours has returned the colour half
\* way between them, which is neither child's
C28_Witness ==
    /\ calc.op = "GetColorAtPoint"
    /\ calc.pc = "return"
    /\ calc.object.kind = "blend"
    /\ calc.object.mInverseTransform = Zero
    /\ calc.object.mK = 5000
    /\ Len(calc.object.mObjectList) = 2
    /\ calc.result # GetColorAtPoint(calc.object.mObjectList[1], calc.point)
    /\ calc.result # GetColorAtPoint(calc.object.mObjectList[2], calc.point)

\* the composite without its own transform
Untransformed(object) == [object EXCEPT !.mInverseTransform = Zero]

\* C29: a composite with transform T hands its children the point T_inverse * P
\* for a world point P, for the distance and for the colour alike: both are what
\* the same composite without a transform returns at T_inverse * P, so that a
\* composite translated by t has its surface shifted by exactly t.
C29_InverseAppliedOnce ==
    calc.pc = "return" =>
        LET there == TransformPoint(calc.object.mInverseTransform, calc.point)
        IN  /\ calc.op = "GetTransformedDistanceToPoint" =>
                   calc.result = GetTransformedDistanceToPoint(Untransformed(calc.object), there)
            /\ calc.op = "GetColorAtPoint" =>
                   calc.result = GetColorAtPoint(Untransformed(calc.object), there)

\* ------------------------------------------------ presenting a pixel -----
\* the 8-bit values
Uint8 == 0..255

\* static_cast<uint8_t>( value ) of a double: the fraction is dropped; when what is
\* left is no 8-bit value the conversion is undefined and any byte may result
CastToUint8(value) ==
    LET truncated == IF value < 0 THEN 0 - ((0 - value) \div Scale) ELSE value \div Scale
    IN  IF truncated \in Uint8 THEN {truncated} ELSE Uint8

\* the channel values of the buffer: below -1/255, just below 0, and from 0 to above 1
ChannelValues == {0 - Scale, 0 - 20, 0, 5000, Scale, 15000}

\* the colours of the pixel presented, at most one channel of each at -1/255 or below
PixelColors ==
    { color \in { CColor4f(r, g, b) : r \in ChannelValues, g \in ChannelValues,
                                       b \in ChannelValues } :
          Cardinality({ i \in 1..3 : color[i] * 255 <= 0 - Scale }) <= 1 }

\* WM_PAINT finds the frame done and is about to convert a pixel of the buffer
InitPresent ==
    /\ AtRest
    /\ calc \in { [op |-> "WM_PAINT", pc |-> "call", color |-> c, bitmap |-> <<0, 0, 0>>] :
                  c \in PixelColors }

\* the body of the conversion loop: the bytes +0, +1 and +2 of the pixel in the
\* bitmap take the blue, the green and the red channel
PresentPixel ==
    /\ calc.op = "WM_PAINT"
    /\ calc.pc = "call"
    /\ \E blue \in CastToUint8(min_val(Scale, calc.color[3]) * 255),
          green \in CastToUint8(min_val(Scale, calc.color[2]) * 255),
          red \in CastToUint8(min_val(Scale, calc.color[1]) * 255) :
           calc' = [calc EXCEPT !.pc = "return", !.bitmap = <<blue, green, red>>]
    /\ UNCHANGED schedVars

NextPresent == PresentPixel

SpecPresent == InitPresent /\ [][NextPresent]_vars

\* C30: for every channel value c of the buffer, c < 0 and c > 1 included, the
\* presenter writes the byte floor(clamp(c, 0, 1) * 255): 255 for a channel above
\* 1 and 0 for a negative channel.
C30_ChannelsClamped ==
    (calc.op = "WM_PAINT" /\ calc.pc = "return") =>
        \A i \in 1..3 :
            calc.bitmap[4 - i] = (max_val(0, min_val(Scale, calc.color[i])) * 255) \div Scale

=============================================================================
